---- MODULE Spec2Model ----
(***************************************************************************)
(* Model of the xEye web client: the settings patch coalescer of           *)
(* web/src/lib/api.js, the App component (settings reconciliation,         *)
(* pan/tilt state, monitoring sweep), the Joystick and VideoPanel tick     *)
(* loops and the PTZControls directional pad.                              *)
(*                                                                         *)
(* The client is single threaded: every action below is one task of the   *)
(* browser's event loop (an event handler, a timer callback or the         *)
(* arrival of a network response) together with the microtasks it queues.  *)
(* State set by a click handler is rendered, and its effects are run,      *)
(* before the next task (React 18 root); state set by a timer or response  *)
(* callback is rendered in a later task.                                    *)
(***************************************************************************)
EXTENDS Integers, Sequences, FiniteSets, TLC

\* ------------------------------------------------------------------ bounds
\* Number of patchCameraSettings calls in one behaviour.
MaxCalls == 4

\* Number of sweep loops started in one behaviour.
MaxSweeps == 2

\* Relative-move requests in flight at once.
MaxRelInFlight == 1

\* Home requests in flight at once.
MaxHomeInFlight == 1

\* Joystick nudge requests in flight at once.
MaxNudgeInFlight == 2

\* Moves one directional-pad gesture dispatches.
MaxPadMoves == 3

\* Rejected nudge promises waiting for their catch handler.
MaxNudgeErrors == 1

\* ------------------------------------------------------------ plain values
\* JavaScript null / undefined.
Null == [null |-> TRUE]

\* The object literal {}.
EmptyObj == [k \in {} |-> 0]

NoToast == [message |-> "", tone |-> ""]

\* Error raised by handleJsonResponse for a non-2xx settings response.
SettingsError == "settings request failed"

\* Mutant of Merge: a key already present keeps its first value.
MergeFirstWins(a, b) ==
  [k \in (DOMAIN a) \cup (DOMAIN b) |-> IF k \in DOMAIN a THEN a[k] ELSE b[k]]

\* { ...a, ...b } and Object.assign(a, b): keys of b overwrite keys of a.
Merge(a, b) ==
  [k \in (DOMAIN a) \cup (DOMAIN b) |-> IF k \in DOMAIN b THEN b[k] ELSE a[k]]

\* Settings object the camera service starts with.
ServerInitialSettings ==
  [zoom |-> 1, awb_mode |-> "auto", low_light |-> FALSE, awb_enable |-> FALSE]

\* Partial updates the Controls panel hands to onSettingsChange.
PartialChoices ==
  { [zoom |-> 2],
    [wb_preset |-> "low_light"] }

\* Partial updates of the white-balance preset select, beside a zoom change.
PresetPartialChoices ==
  PartialChoices \cup { [wb_preset |-> "daylight"] }

\* Expansion of the wb_preset pseudo key into concrete fields; the preset is
\* always a name here, never null.
ExpandPreset(partial) ==
  IF "wb_preset" \in DOMAIN partial
    THEN LET preset == partial["wb_preset"]
             rest   == [k \in (DOMAIN partial) \ {"wb_preset"} |-> partial[k]]
         IN  IF preset = "low_light"
               THEN Merge(rest, [awb_mode |-> preset, low_light |-> TRUE,
                                 awb_enable |-> TRUE])
               ELSE Merge(rest, [awb_mode |-> preset, low_light |-> FALSE])
    ELSE partial

\* The camera service applying a PATCH body to its settings.
ServerApply(current, payload) == Merge(current, ExpandPreset(payload))

\* ---------------------------------------------------------------- state
VARIABLES
  \* web/src/lib/api.js, module state
  patchTimer,        \* TRUE while the 200 ms debounce timer is scheduled
  pendingPatch,      \* accumulated partial settings
  patchWaiters,      \* callers (call ids) waiting for the next flush
  flushChain,        \* flushPendingPatch invocations queued on the chain
  flushes,           \* every flush that sent a request, in dispatch order
  calls,             \* every patchCameraSettings call made so far
  \* App component, settings side
  settings,          \* displayed settings (React state)
  lastKnownSettings, \* lastKnownSettings.current
  initialSettings,   \* initialSettings.current
  toast,             \* the toast shown last
  loadState,         \* initial getCameraSettings: "pending", "ok" or "failed"
  \* environment and history
  serverSettings,    \* settings held by the camera service
  lastConfirmed,     \* last settings object received from the service
  nFlushFailed,      \* number of flushes rejected so far
  \* App component, pan/tilt side
  ptz,               \* cached PanTiltState (React state), Null until loaded
  monitoring,        \* monitoring flag (React state)
  monitoringRef,     \* monitoringRef.current, the mirrored flag
  rendered,          \* state values of the last committed render
  dirty,             \* "none", or how the scheduled re-render is flushed
  loops,             \* every sweep loop (cycle) started so far
  absReqs,           \* POST /pantilt/absolute requests in flight
  relReqs,           \* POST /pantilt/relative requests in flight
  homeReqs,          \* POST /pantilt/home requests in flight
  pollReqs,          \* GET /pantilt requests in flight
  serverPtz,         \* PanTiltState held by the servo service
  lifecycle,         \* mounted, and the flags of the load and poll effects
  console,           \* messages written with console.debug / console.error
  monitoringClick,   \* history: the last click on the monitoring button
  dropped,           \* history: getPanTiltState answers discarded after teardown
  \* Joystick component
  active,            \* React state: a drag is in progress
  activeRef,         \* activeRef.current
  pointerId,         \* pointerId.current, NoPointer when null
  vector,            \* React state {x, y}, in hundredths
  nudgeReqs,         \* POST /ptz/relative requests in flight
  nudgeErrors,       \* rejected ptzNudge promises whose catch has not run yet
  \* VideoPanel component with its own drag handle
  dragging,          \* React state
  vpVector,          \* React state vector {x, y}, in hundredths
  vpListening,       \* the window pointermove/pointerup listeners are registered
  lastTick,          \* history: what the last interval callback dispatched
  \* PTZControls component
  isRelativeDisabled, \* value of the last render
  pointerState,      \* pointerState.current
  gesture            \* history: the pointer or keyboard gesture under way

\* The settings side without the toast, which every component writes.
settingsOnlyVars ==
  << patchTimer, pendingPatch, patchWaiters, flushChain, flushes, calls,
     settings, lastKnownSettings, initialSettings, loadState,
     serverSettings, lastConfirmed, nFlushFailed >>

settingsVars == << settingsOnlyVars, toast >>

\* The pan/tilt variables only a few actions write.
appAuxVars == << lifecycle, console, monitoringClick, dropped >>

ptzVars ==
  << ptz, monitoring, monitoringRef, rendered, dirty, loops, absReqs, relReqs,
     homeReqs, pollReqs, serverPtz, appAuxVars >>

joystickVars == << active, activeRef, pointerId, vector, nudgeReqs, nudgeErrors >>

videoPanelVars == << dragging, vpVector, vpListening >>

padVars == << isRelativeDisabled, pointerState, gesture >>

inputVars == << joystickVars, videoPanelVars, lastTick, padVars >>

\* Everything the settings actions leave alone.
nonSettingsVars == << ptzVars, inputVars >>

vars == << settingsVars, ptzVars, inputVars >>

\* ------------------------------------------------- api.js: the coalescer
\* The module state of api.js as one record, for the helper operators.
Coalescer ==
  [ pendingPatch |-> pendingPatch, patchWaiters |-> patchWaiters,
    flushChain |-> flushChain, flushes |-> flushes, calls |-> calls ]

InFlight(fl) == { i \in 1..Len(fl) : fl[i].status = "inflight" }

\* sendCameraPatch: an empty payload is fetched with GET, otherwise PATCH.
RequestMethod(payload) == IF DOMAIN payload = {} THEN "GET" ELSE "PATCH"

\* Mutant of FlushPendingPatch: the pending patch is not cleared when the
\* request is dispatched.
FlushPendingPatchKeepsPatch(co) ==
  IF co.patchWaiters = << >>
    THEN co
    ELSE LET id == Len(co.flushes) + 1
             listeners == co.patchWaiters
         IN  [co EXCEPT
               !.patchWaiters = << >>,
               !.flushes = Append(@, [ payload   |-> co.pendingPatch,
                                        method    |-> RequestMethod(co.pendingPatch),
                                        listeners |-> listeners,
                                        status    |-> "inflight" ]),
               !.calls = [c \in DOMAIN co.calls |->
                            IF \E j \in DOMAIN listeners : listeners[j] = c
                              THEN [co.calls[c] EXCEPT !.flush = id]
                              ELSE co.calls[c]] ]

\* flushPendingPatch up to its await: take the payload and the listeners,
\* return at once when nobody waits, otherwise send the request.
FlushPendingPatch(co) ==
  IF co.patchWaiters = << >>
    THEN [co EXCEPT !.pendingPatch = EmptyObj]
    ELSE LET id == Len(co.flushes) + 1
             listeners == co.patchWaiters
         IN  [co EXCEPT
               !.pendingPatch = EmptyObj,
               !.patchWaiters = << >>,
               !.flushes = Append(@, [ payload   |-> co.pendingPatch,
                                        method    |-> RequestMethod(co.pendingPatch),
                                        listeners |-> listeners,
                                        status    |-> "inflight" ]),
               !.calls = [c \in DOMAIN co.calls |->
                            IF \E j \in DOMAIN listeners : listeners[j] = c
                              THEN [co.calls[c] EXCEPT !.flush = id]
                              ELSE co.calls[c]] ]

\* Mutant of ChainSettled: the trigger calls flushPendingPatch directly.
ChainSettledUnchained(co) == TRUE

\* flushChain.then(...): the continuation runs only once the promise of the
\* previous flush has settled, that is once its request got its response.
ChainSettled(co) == InFlight(co.flushes) = {}

\* Run the queued continuations of flushChain while the chain is settled.
RECURSIVE RunChain(_)
RunChain(co) ==
  IF co.flushChain = 0 \/ ~ChainSettled(co)
    THEN co
    ELSE RunChain(FlushPendingPatch([co EXCEPT !.flushChain = @ - 1]))

\* trigger(): append one flushPendingPatch to the chain.
Trigger(co) == RunChain([co EXCEPT !.flushChain = @ + 1])

\* ------------------------------------------------ App: settle callbacks
AppState ==
  [ settings |-> settings, lastKnownSettings |-> lastKnownSettings,
    initialSettings |-> initialSettings, toast |-> toast ]

\* then-branch of handleSettingsChange / try-branch of handleResetSettings.
OnResolved(app, call, updated) ==
  IF call.kind = "reset"
    THEN [ settings |-> updated, lastKnownSettings |-> updated,
           initialSettings |-> updated,
           toast |-> [message |-> "Settings reset to defaults", tone |-> "success"] ]
    ELSE [app EXCEPT !.settings = updated, !.lastKnownSettings = updated]

\* Mutant of OnRejected: the catch-branch only shows the toast.
OnRejectedToastOnly(app, call, error) ==
  [app EXCEPT !.toast = [message |-> error, tone |-> "error"]]

\* catch-branch of handleSettingsChange / handleResetSettings.
OnRejected(app, call, error) ==
  LET rolled == IF call.snapshotBefore # Null
                  THEN [app EXCEPT !.settings = call.snapshotBefore,
                                   !.lastKnownSettings = call.snapshotBefore]
                  ELSE app
  IN  [rolled EXCEPT !.toast = [message |-> error, tone |-> "error"]]

RECURSIVE ResolveAll(_, _, _, _)
ResolveAll(app, cs, listeners, updated) ==
  IF listeners = << >>
    THEN app
    ELSE ResolveAll(OnResolved(app, cs[Head(listeners)], updated), cs,
                    Tail(listeners), updated)

RECURSIVE RejectAll(_, _, _, _)
RejectAll(app, cs, listeners, error) ==
  IF listeners = << >>
    THEN app
    ELSE RejectAll(OnRejected(app, cs[Head(listeners)], error), cs,
                   Tail(listeners), error)

OfKind(cs, listeners, kind) == SelectSeq(listeners, LAMBDA c : cs[c].kind = kind)

\* Order in which the rejection callbacks run: an awaiting async function
\* (reset) resumes one microtask after reject(), a .then().catch() chain
\* (change) reaches its catch handler one microtask later.
RejectionOrder(cs, listeners) ==
  OfKind(cs, listeners, "reset") \o OfKind(cs, listeners, "change")

\* Mutant of SettleListeners: only the first listener is settled.
SettleFirstListener(cs, listeners, outcome, result) ==
  [c \in DOMAIN cs |->
     IF listeners # << >> /\ c = Head(listeners)
       THEN [cs[c] EXCEPT !.outcome = outcome, !.result = result]
       ELSE cs[c]]

\* listeners.forEach(resolve) / listeners.forEach(reject): every promise
\* taken by the flush is settled with the same value.
SettleListeners(cs, listeners, outcome, result) ==
  [c \in DOMAIN cs |->
     IF \E j \in DOMAIN listeners : listeners[j] = c
       THEN [cs[c] EXCEPT !.outcome = outcome, !.result = result]
       ELSE cs[c]]

SetCoalescer(co) ==
  /\ pendingPatch' = co.pendingPatch
  /\ patchWaiters' = co.patchWaiters
  /\ flushChain' = co.flushChain
  /\ flushes' = co.flushes
  /\ calls' = co.calls

SetApp(app) ==
  /\ settings' = app.settings
  /\ lastKnownSettings' = app.lastKnownSettings
  /\ initialSettings' = app.initialSettings
  /\ toast' = app.toast

\* patchCameraSettings up to schedulePatchFlush: merge the partial into the
\* pending patch and register the caller's promise.
Enqueue(co, kind, partial, snapshot, timerWasPending) ==
  LET c == Len(co.calls) + 1
  IN  [co EXCEPT
        !.pendingPatch = Merge(@, partial),
        !.patchWaiters = Append(@, c),
        !.calls = Append(@, [ kind |-> kind, partial |-> partial,
                              snapshotBefore |-> snapshot,
                              joined |-> timerWasPending,
                              prevTaken |-> (c > 1 /\ co.calls[c - 1].flush # 0),
                              flush |-> 0, outcome |-> "pending",
                              result |-> Null ])]

\* -------------------------------------------------------- settings actions
\* Initial getCameraSettings of the App component succeeds.
LoadSettingsOk ==
  /\ loadState = "pending"
  /\ loadState' = "ok"
  /\ settings' = serverSettings
  /\ lastKnownSettings' = serverSettings
  /\ initialSettings' = serverSettings
  /\ lastConfirmed' = serverSettings
  /\ UNCHANGED << patchTimer, pendingPatch, patchWaiters, flushChain, flushes,
                  calls, toast, serverSettings, nFlushFailed >>
  /\ UNCHANGED nonSettingsVars

\* Initial getCameraSettings fails.
LoadSettingsFail ==
  /\ loadState = "pending"
  /\ loadState' = "failed"
  /\ toast' = [message |-> SettingsError, tone |-> "error"]
  /\ UNCHANGED << patchTimer, pendingPatch, patchWaiters, flushChain, flushes,
                  calls, settings, lastKnownSettings, initialSettings,
                  serverSettings, lastConfirmed, nFlushFailed >>
  /\ UNCHANGED nonSettingsVars

\* Mutant of HandleSettingsChange: the expanded partial is handed to
\* patchCameraSettings.
HandleSettingsChangeExpanded(partial) ==
  /\ settings # Null
  /\ Len(calls) < MaxCalls
  /\ settings' = Merge(settings, ExpandPreset(partial))
  /\ SetCoalescer(Enqueue(Coalescer, "change", ExpandPreset(partial),
                          lastKnownSettings, patchTimer))
  /\ patchTimer' = TRUE
  /\ UNCHANGED << lastKnownSettings, initialSettings, toast, loadState,
                  serverSettings, lastConfirmed, nFlushFailed >>
  /\ UNCHANGED nonSettingsVars

\* handleSettingsChange(partial): optimistic display update, then a debounced
\* patchCameraSettings(partial).  The Controls panel only renders its inputs
\* once settings are loaded.
HandleSettingsChange(partial) ==
  /\ settings # Null
  /\ Len(calls) < MaxCalls
  /\ settings' = Merge(settings, ExpandPreset(partial))
  /\ SetCoalescer(Enqueue(Coalescer, "change", partial, lastKnownSettings, patchTimer))
  /\ patchTimer' = TRUE
  /\ UNCHANGED << lastKnownSettings, initialSettings, toast, loadState,
                  serverSettings, lastConfirmed, nFlushFailed >>
  /\ UNCHANGED nonSettingsVars

\* Mutant of HandleResetSettings: the reset is sent in debounced mode.
HandleResetSettingsDebounced ==
  /\ initialSettings # Null
  /\ Len(calls) < MaxCalls
  /\ SetCoalescer(Enqueue(Coalescer, "reset", initialSettings,
                          lastKnownSettings, patchTimer))
  /\ patchTimer' = TRUE
  /\ UNCHANGED << settings, lastKnownSettings, initialSettings, toast, loadState,
                  serverSettings, lastConfirmed, nFlushFailed >>
  /\ UNCHANGED nonSettingsVars

\* handleResetSettings(): patchCameraSettings(initialSettings.current,
\* { debounce: false }) clears the timer and triggers a flush at once.
HandleResetSettings ==
  /\ initialSettings # Null
  /\ Len(calls) < MaxCalls
  /\ SetCoalescer(Trigger(Enqueue(Coalescer, "reset", initialSettings,
                                  lastKnownSettings, patchTimer)))
  /\ patchTimer' = FALSE
  /\ UNCHANGED << settings, lastKnownSettings, initialSettings, toast, loadState,
                  serverSettings, lastConfirmed, nFlushFailed >>
  /\ UNCHANGED nonSettingsVars

\* The debounce timer fires 200 ms after the last debounced call.
PatchTimerFire ==
  /\ patchTimer
  /\ patchTimer' = FALSE
  /\ SetCoalescer(Trigger(Coalescer))
  /\ UNCHANGED << settings, lastKnownSettings, initialSettings, toast, loadState,
                  serverSettings, lastConfirmed, nFlushFailed >>
  /\ UNCHANGED nonSettingsVars

\* The response of a flush arrives: its listeners are resolved, their
\* callbacks run, and the chain continues with the next queued flush.
FlushSucceed ==
  \E i \in InFlight(flushes) :
    LET f == flushes[i]
        updated == IF f.method = "PATCH"
                     THEN ServerApply(serverSettings, f.payload)
                     ELSE serverSettings
        settled == [Coalescer EXCEPT
                      !.flushes[i].status = "ok",
                      !.calls = SettleListeners(@, f.listeners, "resolved", updated)]
    IN  /\ serverSettings' = updated
        /\ lastConfirmed' = updated
        /\ SetApp(ResolveAll(AppState, calls, f.listeners, updated))
        /\ SetCoalescer(RunChain(settled))
        /\ UNCHANGED << patchTimer, loadState, nFlushFailed >>
        /\ UNCHANGED nonSettingsVars

\* Mutant of FlushFail: after a failed request the chain does not go on to
\* the flush queued behind it.
FlushFailBlocksChain ==
  \E i \in InFlight(flushes) :
    LET f == flushes[i]
        settled == [Coalescer EXCEPT
                      !.flushes[i].status = "err",
                      !.calls = SettleListeners(@, f.listeners, "rejected", SettingsError)]
    IN  /\ nFlushFailed' = nFlushFailed + 1
        /\ SetApp(RejectAll(AppState, calls, RejectionOrder(calls, f.listeners),
                            SettingsError))
        /\ SetCoalescer(settled)
        /\ UNCHANGED << patchTimer, loadState, serverSettings, lastConfirmed >>
        /\ UNCHANGED nonSettingsVars

\* The request of a flush fails: its listeners are rejected with the error.
FlushFail ==
  \E i \in InFlight(flushes) :
    LET f == flushes[i]
        settled == [Coalescer EXCEPT
                      !.flushes[i].status = "err",
                      !.calls = SettleListeners(@, f.listeners, "rejected", SettingsError)]
    IN  /\ nFlushFailed' = nFlushFailed + 1
        /\ SetApp(RejectAll(AppState, calls, RejectionOrder(calls, f.listeners),
                            SettingsError))
        /\ SetCoalescer(RunChain(settled))
        /\ UNCHANGED << patchTimer, loadState, serverSettings, lastConfirmed >>
        /\ UNCHANGED nonSettingsVars

SettingsInit ==
  /\ patchTimer = FALSE
  /\ pendingPatch = EmptyObj
  /\ patchWaiters = << >>
  /\ flushChain = 0
  /\ flushes = << >>
  /\ calls = << >>
  /\ settings = Null
  /\ lastKnownSettings = Null
  /\ initialSettings = Null
  /\ toast = NoToast
  /\ loadState = "pending"
  /\ serverSettings = ServerInitialSettings
  /\ lastConfirmed = Null
  /\ nFlushFailed = 0

SettingsNext ==
  \/ LoadSettingsOk
  \/ LoadSettingsFail
  \/ \E partial \in PartialChoices : HandleSettingsChange(partial)
  \/ HandleResetSettings
  \/ PatchTimerFire
  \/ FlushSucceed
  \/ FlushFail

\* One kind of change beside the reset, with requests that succeed and fail.
SettleNext ==
  \/ LoadSettingsOk
  \/ HandleSettingsChange([zoom |-> 2])
  \/ HandleResetSettings
  \/ PatchTimerFire
  \/ FlushSucceed
  \/ FlushFail

\* Changes of the white-balance preset, debounced and flushed.
PresetNext ==
  \/ LoadSettingsOk
  \/ \E partial \in PresetPartialChoices : HandleSettingsChange(partial)
  \/ PatchTimerFire
  \/ FlushSucceed

\* ------------------------------------------------------ claims: settings
\* C1: at most one settings request is in flight at any time: the request of
\* a flush is not sent before the previous flush got its response or failed.
C1_FlushesNeverOverlap == Cardinality(InFlight(flushes)) <= 1

\* C1 witness: a flush is in flight while a later trigger and a later caller
\* wait behind it on the chain.
C1_Witness ==
  /\ InFlight(flushes) # {}
  /\ flushChain >= 1
  /\ patchWaiters # << >>

\* Flushes whose listeners include call c.
FlushesCarrying(c) ==
  { i \in 1..Len(flushes) :
      \E j \in DOMAIN flushes[i].listeners : flushes[i].listeners[j] = c }

\* The body a flush must carry: for every key of its listeners' partials the
\* value written by the last listener that has the key.
ExpectedPayload(listeners) ==
  LET keys == UNION { DOMAIN calls[listeners[j]].partial : j \in DOMAIN listeners }
      last(k) == CHOOSE j \in DOMAIN listeners :
                   /\ k \in DOMAIN calls[listeners[j]].partial
                   /\ \A m \in DOMAIN listeners :
                        k \in DOMAIN calls[listeners[m]].partial => m <= j
  IN  [k \in keys |-> calls[listeners[last(k)]].partial[k]]

C5_RollbackToLastConfirmed ==
  [][ nFlushFailed' > nFlushFailed =>
        /\ settings' = lastConfirmed
        /\ lastKnownSettings' = lastConfirmed
        /\ toast' = [message |-> SettingsError, tone |-> "error"] ]_vars

\* C6: all callers taken by one flush settle alike: rejected with the same
\* error when the request failed, resolved with the same settings object
\* when it succeeded, and none of them stays pending.
C6_ListenersSettleAlike ==
  \A i \in 1..Len(flushes) :
    \A j \in DOMAIN flushes[i].listeners :
      LET c == calls[flushes[i].listeners[j]]
          first == calls[flushes[i].listeners[1]]
      IN  /\ flushes[i].status = "inflight" => c.outcome = "pending"
          /\ flushes[i].status = "ok" =>
               c.outcome = "resolved" /\ c.result = first.result /\ c.result # Null
          /\ flushes[i].status = "err" =>
               c.outcome = "rejected" /\ c.result = SettingsError

\* C6 witness: a failed flush and a successful flush, each with two callers.
C6_Witness ==
  /\ \E i \in 1..Len(flushes) :
       flushes[i].status = "err" /\ Len(flushes[i].listeners) >= 2
  /\ \E i \in 1..Len(flushes) :
       flushes[i].status = "ok"

\* ------------------------------------------------- pan/tilt: plain values
\* Soft limits the servo service is configured with (PAN_MIN_DEG .. in the
\* README), in degrees.
LimitChoices ==
  { [pan |-> << -1, 1 >>, tilt |-> << 0, 0 >>] }

PAN_STEP == 2
TILT_STEP == 2

Min(a, b) == IF a < b THEN a ELSE b
Max(a, b) == IF a > b THEN a ELSE b
Abs(a) == IF a < 0 THEN -a ELSE a

\* Mutant of clamp: the limits are ignored.
clampIgnoringLimits(value, lim) == value

\* clamp(value, [min, max]) of the sweep effect.
clamp(value, lim) == Max(lim[1], Min(lim[2], value))

\* The servo service: absolute, relative and home moves, clamped to limits.
ServerMove(state, pan, tilt) ==
  [state EXCEPT !.pan_deg = clamp(pan, state.limits.pan),
                !.tilt_deg = clamp(tilt, state.limits.tilt)]

\* Mutant of SweepDeps: the position is a dependency of the sweep effect.
SweepDepsWithPosition(mon, p) ==
  [ monitoring |-> mon,
    hasPtz  |-> p # Null,
    panMin  |-> IF p # Null THEN p.limits.pan[1] ELSE -90,
    panMax  |-> IF p # Null THEN p.limits.pan[2] ELSE 90,
    tiltMin |-> IF p # Null THEN p.limits.tilt[1] ELSE -70,
    tiltMax |-> IF p # Null THEN p.limits.tilt[2] ELSE 70,
    pan_deg |-> IF p # Null THEN p.pan_deg ELSE 0,
    tilt_deg |-> IF p # Null THEN p.tilt_deg ELSE 0 ]

\* panMin .. tiltMax and hasPtz, the values the sweep effect depends on.
SweepDeps(mon, p) ==
  [ monitoring |-> mon,
    hasPtz  |-> p # Null,
    panMin  |-> IF p # Null THEN p.limits.pan[1] ELSE -90,
    panMax  |-> IF p # Null THEN p.limits.pan[2] ELSE 90,
    tiltMin |-> IF p # Null THEN p.limits.tilt[1] ELSE -70,
    tiltMax |-> IF p # Null THEN p.limits.tilt[2] ELSE 70 ]

\* Mutant of NewLoop: cycle() starts at the right-hand bottom corner.
NewLoopFromBottomRight(deps) ==
  LET panLimits  == << deps.panMin, deps.panMax >>
      tiltLimits == << deps.tiltMin, deps.tiltMax >>
  IN  [ cancelled  |-> FALSE,
        pc         |-> "start",
        panLimits  |-> panLimits,
        tiltLimits |-> tiltLimits,
        panLeft    |-> clamp(-60, panLimits),
        panRight   |-> clamp(60, panLimits),
        tiltTop    |-> clamp(30, tiltLimits),
        tiltBottom |-> clamp(-30, tiltLimits),
        currentPan |-> clamp(60, panLimits),
        currentTilt |-> clamp(-30, tiltLimits),
        panDirection |-> 1,
        tiltDirection |-> -1,
        homed      |-> FALSE ]

\* The closure of one run of the sweep effect, before cycle() starts.
NewLoop(deps) ==
  LET panLimits  == << deps.panMin, deps.panMax >>
      tiltLimits == << deps.tiltMin, deps.tiltMax >>
  IN  [ cancelled  |-> FALSE,
        pc         |-> "start",
        panLimits  |-> panLimits,
        tiltLimits |-> tiltLimits,
        panLeft    |-> clamp(-60, panLimits),
        panRight   |-> clamp(60, panLimits),
        tiltTop    |-> clamp(30, tiltLimits),
        tiltBottom |-> clamp(-30, tiltLimits),
        currentPan |-> clamp(-60, panLimits),
        currentTilt |-> clamp(30, tiltLimits),
        panDirection |-> 1,
        tiltDirection |-> -1,
        homed      |-> FALSE ]

\* Math.abs(panRight - panLeft) > 0.01, in hundredths of a degree.
hasPanRange(l) == Abs(l.panRight - l.panLeft) * 100 > 1
hasTiltRange(l) == Abs(l.tiltTop - l.tiltBottom) * 100 > 1

\* Mutant of IsCancelled: the loop tests the monitoring value its closure
\* captured when the effect ran, which is always true.
IsCancelledStaleClosure(l, ref) == FALSE

\* cancelled || !monitoringRef.current
IsCancelled(l, ref) == l.cancelled \/ ~ref

\* Mutant of SafeApply: the request is sent and not awaited.
SafeApplyNoAwait(l, ref, applyPc, waitPc) ==
  IF IsCancelled(l, ref)
    THEN [loop |-> [l EXCEPT !.pc = waitPc], send |-> FALSE]
    ELSE [loop |-> [l EXCEPT !.pc = waitPc], send |-> TRUE]

\* safeApply(pan, tilt): send the absolute move unless cancelled; the loop
\* then awaits the request (pc apply) or goes on to its wait (pc wait).
SafeApply(l, ref, applyPc, waitPc) ==
  IF IsCancelled(l, ref)
    THEN [loop |-> [l EXCEPT !.pc = waitPc], send |-> FALSE]
    ELSE [loop |-> [l EXCEPT !.pc = applyPc], send |-> TRUE]

\* Mutant of Finished: instead of returning, cycle() starts another wait.
FinishedKeepsWaiting(l) ==
  [ loop |-> [l EXCEPT !.pc = "panIdle"], send |-> FALSE ]

\* cycle() returns: the closure is dead, its record is reset to one value.
Finished(l) ==
  [ loop |-> [l EXCEPT !.pc = "done", !.cancelled = TRUE, !.homed = FALSE,
                       !.currentPan = l.panLeft, !.currentTilt = l.tiltTop,
                       !.panDirection = 1, !.tiltDirection = -1],
    send |-> FALSE ]

\* cycle(): the tilt step after a pan pass.
TiltStep(l, ref) ==
  IF IsCancelled(l, ref)
    THEN Finished(l)
    ELSE IF hasTiltRange(l)
      THEN LET dir == IF l.tiltDirection = -1 /\ l.currentTilt <= l.tiltBottom THEN 1
                      ELSE IF l.tiltDirection = 1 /\ l.currentTilt >= l.tiltTop THEN -1
                      ELSE l.tiltDirection
               raw == l.currentTilt + dir * TILT_STEP
               nextTilt == IF dir = -1 /\ raw < l.tiltBottom THEN l.tiltBottom
                           ELSE IF dir = 1 /\ raw > l.tiltTop THEN l.tiltTop
                           ELSE raw
               turned == [l EXCEPT !.tiltDirection = dir]
           IN  IF nextTilt # l.currentTilt
                 THEN SafeApply([turned EXCEPT !.currentTilt = clamp(nextTilt, l.tiltLimits)],
                                ref, "tiltApply", "tiltWait")
                 ELSE [loop |-> [turned EXCEPT !.pc = "tiltWait"], send |-> FALSE]
      ELSE [loop |-> [l EXCEPT !.pc = "tiltWait"], send |-> FALSE]

\* Mutant of PanStep: the step is not cut off at the target of the pass.
PanStepOvershoot(l, ref) ==
  LET targetPan == IF l.panDirection = 1 THEN l.panRight ELSE l.panLeft
  IN  IF /\ ~IsCancelled(l, ref)
         /\ \/ (l.panDirection = 1 /\ l.currentPan < targetPan)
            \/ (l.panDirection = -1 /\ l.currentPan > targetPan)
        THEN LET raw == l.currentPan + l.panDirection * PAN_STEP
             IN  SafeApply([l EXCEPT !.currentPan = clamp(raw, l.panLimits)],
                           ref, "panApply", "panWait")
        ELSE TiltStep(l, ref)

\* cycle(): the head of the inner pan loop.
PanStep(l, ref) ==
  LET targetPan == IF l.panDirection = 1 THEN l.panRight ELSE l.panLeft
  IN  IF /\ ~IsCancelled(l, ref)
         /\ \/ (l.panDirection = 1 /\ l.currentPan < targetPan)
            \/ (l.panDirection = -1 /\ l.currentPan > targetPan)
        THEN LET raw == l.currentPan + l.panDirection * PAN_STEP
                 lim == IF l.panDirection = 1 THEN Min(raw, targetPan)
                                              ELSE Max(raw, targetPan)
             IN  SafeApply([l EXCEPT !.currentPan = clamp(lim, l.panLimits)],
                           ref, "panApply", "panWait")
        ELSE TiltStep(l, ref)

\* cycle(): the head of the outer while loop.
SweepIteration(l, ref) ==
  IF IsCancelled(l, ref)
    THEN Finished(l)
    ELSE IF hasPanRange(l)
      THEN PanStep(l, ref)
      ELSE [loop |-> [l EXCEPT !.pc = "panIdle"], send |-> FALSE]

\* Mutant of AfterWait: the pan direction is not reversed after the tilt step.
AfterWaitNoReverse(l, ref) ==
  CASE l.pc = "initWait" -> SweepIteration(l, ref)
    [] l.pc = "panWait"  -> PanStep(l, ref)
    [] l.pc = "panIdle"  -> TiltStep(l, ref)
    [] l.pc = "tiltWait" -> SweepIteration(l, ref)

\* cycle() resumed after the wait it is suspended in has elapsed.
AfterWait(l, ref) ==
  CASE l.pc = "initWait" -> SweepIteration(l, ref)
    [] l.pc = "panWait"  -> PanStep(l, ref)
    [] l.pc = "panIdle"  -> TiltStep(l, ref)
    [] l.pc = "tiltWait" -> SweepIteration([l EXCEPT !.panDirection = -1 * @], ref)

\* cycle() resumed after the request it awaits has completed: it goes on to
\* the wait that follows the safeApply.
AfterApply(l) ==
  CASE l.pc = "initApply" -> [l EXCEPT !.pc = "initWait"]
    [] l.pc = "panApply"  -> [l EXCEPT !.pc = "panWait"]
    [] l.pc = "tiltApply" -> [l EXCEPT !.pc = "tiltWait"]

WaitPcs == {"initWait", "panWait", "panIdle", "tiltWait"}
ApplyPcs == {"initApply", "panApply", "tiltApply"}

\* Error raised by handleJsonResponse for a non-2xx pan/tilt response.
PtzError == "pan/tilt request failed"

ErrorToast(message) == [message |-> message, tone |-> "error"]

\* The request body safeApply hands to applyAbsolute for loop i.
SweepRequest(i, l) == [loop |-> i, pan_deg |-> l.currentPan, tilt_deg |-> l.currentTilt]

\* Mutant of SetPtz: only the first response is kept.
SetPtzOnce(value) ==
  IF ptz # Null
    THEN UNCHANGED << ptz, rendered, dirty >>
    ELSE ptz' = value /\ rendered' = rendered /\ dirty' = "async"

\* setPtz(value).  React re-renders; a render that changes no dependency of
\* the monitoring effects runs none of them and is folded into this step,
\* any other render is left to Commit, after this task.
SetPtz(value) ==
  IF ~lifecycle.mounted
    THEN UNCHANGED << ptz, rendered, dirty >>
    ELSE /\ ptz' = value
         /\ IF value # Null /\ SweepDeps(monitoring, value) = SweepDeps(rendered.monitoring, rendered.ptz)
              THEN rendered' = [rendered EXCEPT !.ptz = value] /\ dirty' = dirty
              ELSE rendered' = rendered /\ dirty' = "async"

\* showToast(message, tone): the toast state lives in App.
ShowToast(t) == toast' = IF lifecycle.mounted THEN t ELSE toast

PollFailedLog == "PTZ poll failed"

\* Lowest free request slot.
FreeSlot(reqs, max) ==
  CHOOSE n \in 1..max : (\A r \in reqs : r.id # n) /\ (\A m \in 1..(n - 1) : \E r \in reqs : r.id = m)

\* --------------------------------------------------------- pan/tilt actions
\* React renders the scheduled state and runs the effects whose dependencies
\* changed: all cleanups first (mirror: ref = false; sweep: cancelled =
\* true), then the effect bodies in declaration order (mirror, ptz-null
\* guard, sweep start).
Commit ==
  /\ dirty # "none"
  /\ LET before   == SweepDeps(rendered.monitoring, rendered.ptz)
         now      == SweepDeps(monitoring, ptz)
         sChanged == before # now
         mChanged == rendered.monitoring # monitoring
         pChanged == rendered.ptz # ptz
         hadLoop  == before.monitoring /\ before.hasPtz
         loops1   == IF sChanged /\ hadLoop
                       THEN [loops EXCEPT ![Len(loops)].cancelled = TRUE]
                       ELSE loops
         ref1     == IF mChanged THEN monitoring ELSE monitoringRef
         forceOff == pChanged /\ ptz = Null /\ monitoring
         starts   == sChanged /\ now.monitoring /\ now.hasPtz
         st       == SafeApply(NewLoop(now), ref1, "initApply", "initWait")
         id       == Len(loops1) + 1
     IN  /\ starts => Len(loops) < MaxSweeps
         /\ monitoringRef' = ref1
         /\ loops' = IF starts THEN Append(loops1, st.loop) ELSE loops1
         /\ absReqs' = IF starts /\ st.send
                         THEN absReqs \cup {SweepRequest(id, st.loop)}
                         ELSE absReqs
         /\ monitoring' = IF forceOff THEN FALSE ELSE monitoring
         /\ dirty' = IF forceOff THEN dirty ELSE "none"
         /\ rendered' = [monitoring |-> monitoring, ptz |-> ptz]
  /\ UNCHANGED << ptz, relReqs, homeReqs, pollReqs, serverPtz, settingsVars, inputVars, appAuxVars >>

\* Click on the monitoring button: PTZControls passes the click on only when
\* App rendered a handler, which it does once ptz is loaded.
HandleToggleMonitoring ==
  /\ dirty # "sync"
  /\ lifecycle.mounted
  /\ rendered.ptz # Null
  /\ ~monitoring => Len(loops) < MaxSweeps
  /\ monitoring' = ~monitoring
  /\ dirty' = "sync"
  /\ UNCHANGED << ptz, monitoringRef, rendered, loops, absReqs, relReqs, homeReqs,
                  pollReqs, serverPtz, settingsVars, inputVars, appAuxVars >>

NotReadyToast == [message |-> "Pan/tilt state not ready yet", tone |-> "info"]

\* PTZControls: isMonitoringDisabled = !onToggleMonitoring, and App renders
\* onToggleMonitoring = ptz ? handleToggleMonitoring : undefined.
isMonitoringDisabled(renderedPtz) == renderedPtz = Null

\* A click on the monitoring button, as the user makes it: PTZControls'
\* handleMonitoringClick returns when the button is disabled, otherwise it
\* calls App's handleToggleMonitoring, whose closure holds the rendered ptz.
MonitoringClick ==
  /\ dirty # "sync"
  /\ lifecycle.mounted
  /\ monitoringClick' = [n |-> 1 - monitoringClick.n,
                         disabled |-> isMonitoringDisabled(rendered.ptz)]
  /\ IF isMonitoringDisabled(rendered.ptz)
       THEN UNCHANGED << monitoring, dirty, toast >>
       ELSE IF rendered.ptz = Null
         THEN toast' = NotReadyToast /\ UNCHANGED << monitoring, dirty >>
         ELSE /\ ~monitoring => Len(loops) < MaxSweeps
              /\ monitoring' = ~monitoring
              /\ dirty' = "sync"
              /\ toast' = toast
  /\ UNCHANGED << ptz, monitoringRef, rendered, loops, absReqs, relReqs, homeReqs,
                  pollReqs, serverPtz, lifecycle, console, dropped, settingsOnlyVars,
                  inputVars >>

\* Mutant of HandleHome: the home request is sent and monitoring is left on.
HandleHomeKeepMonitoring ==
  /\ dirty # "sync"
  /\ lifecycle.mounted
  /\ homeReqs < MaxHomeInFlight
  /\ homeReqs' = homeReqs + 1
  /\ loops' = [i \in DOMAIN loops |->
                 IF loops[i].pc # "done" THEN [loops[i] EXCEPT !.homed = TRUE]
                                         ELSE loops[i]]
  /\ UNCHANGED << ptz, monitoring, monitoringRef, rendered, dirty, absReqs, relReqs,
                  pollReqs, serverPtz, settingsVars, inputVars, appAuxVars >>

\* Click on a Home button: setMonitoring(false), then pantiltHome() is
\* called before the handler returns.
HandleHome ==
  /\ dirty # "sync"
  /\ lifecycle.mounted
  /\ homeReqs < MaxHomeInFlight
  /\ monitoring' = FALSE
  /\ dirty' = IF monitoring THEN "sync" ELSE dirty
  /\ homeReqs' = homeReqs + 1
  /\ loops' = [i \in DOMAIN loops |->
                 IF loops[i].pc # "done" THEN [loops[i] EXCEPT !.homed = TRUE]
                                         ELSE loops[i]]
  /\ UNCHANGED << ptz, monitoringRef, rendered, absReqs, relReqs, pollReqs,
                  serverPtz, settingsVars, inputVars, appAuxVars >>

HomeRespondOk ==
  /\ dirty # "sync"
  /\ homeReqs > 0
  /\ homeReqs' = homeReqs - 1
  /\ serverPtz' = ServerMove(serverPtz, 0, 0)
  /\ SetPtz(serverPtz')
  /\ UNCHANGED << monitoring, monitoringRef, loops, absReqs, relReqs, pollReqs,
                  settingsVars, inputVars, appAuxVars >>

HomeRespondFail ==
  /\ dirty # "sync"
  /\ homeReqs > 0
  /\ homeReqs' = homeReqs - 1
  /\ ShowToast(ErrorToast(PtzError))
  /\ UNCHANGED << ptz, monitoring, monitoringRef, rendered, dirty, loops, absReqs,
                  relReqs, pollReqs, serverPtz, settingsOnlyVars, inputVars, appAuxVars >>

\* keydown listener of App, arrow keys: one applyRelative of 5 degrees.
KeyDownArrow(dpan, dtilt) ==
  /\ dirty # "sync"
  /\ lifecycle.mounted
  /\ rendered.ptz # Null
  /\ Cardinality(relReqs) < MaxRelInFlight
  /\ relReqs' = relReqs \cup { [ id |-> FreeSlot(relReqs, MaxRelInFlight), source |-> "key",
                                 dpan_deg |-> dpan, dtilt_deg |-> dtilt ] }
  /\ UNCHANGED << ptz, monitoring, monitoringRef, rendered, dirty, loops, absReqs,
                  homeReqs, pollReqs, serverPtz, settingsVars, inputVars, appAuxVars >>

\* applyRelative: the response replaces the cached state.
RelativeRespondOk ==
  /\ dirty # "sync"
  /\ \E r \in relReqs :
       /\ relReqs' = relReqs \ {r}
       /\ serverPtz' = ServerMove(serverPtz, serverPtz.pan_deg + r.dpan_deg,
                                  serverPtz.tilt_deg + r.dtilt_deg)
       /\ SetPtz(serverPtz')
  /\ UNCHANGED << monitoring, monitoringRef, loops, absReqs, homeReqs, pollReqs,
                  settingsVars, inputVars, appAuxVars >>

\* applyRelative: a failure is shown as a toast.
RelativeRespondFail ==
  /\ dirty # "sync"
  /\ \E r \in relReqs : relReqs' = relReqs \ {r}
  /\ ShowToast(ErrorToast(PtzError))
  /\ UNCHANGED << ptz, monitoring, monitoringRef, rendered, dirty, loops, absReqs,
                  homeReqs, pollReqs, serverPtz, settingsOnlyVars, inputVars, appAuxVars >>

\* The 1000 ms polling interval fires: poll() sends a getPanTiltState.
PollTick ==
  /\ dirty # "sync"
  /\ lifecycle.interval
  /\ "poll" \notin pollReqs
  /\ pollReqs' = pollReqs \cup {"poll"}
  /\ UNCHANGED << ptz, monitoring, monitoringRef, rendered, dirty, loops, absReqs,
                  relReqs, homeReqs, serverPtz, settingsVars, inputVars, appAuxVars >>

\* The then-handlers of the load effect (if (!active) return) and of the
\* polling effect (if (!cancelled) setPtz(data)).
Discards(k, lc) == IF k = "load" THEN ~lc.active ELSE lc.cancelled

\* setPtz(data) of a getPanTiltState answer, unless the effect was cleaned up.
ApplyFetched(k, data) ==
  IF Discards(k, lifecycle)
    THEN dropped' = dropped \cup {k} /\ UNCHANGED << ptz, rendered, dirty >>
    ELSE dropped' = dropped /\ SetPtz(data)

\* getPanTiltState answers with the state of the servo service.
PtzFetchOk ==
  /\ dirty # "sync"
  /\ \E k \in pollReqs :
       /\ pollReqs' = pollReqs \ {k}
       /\ ApplyFetched(k, serverPtz)
  /\ UNCHANGED << monitoring, monitoringRef, loops, absReqs, relReqs, homeReqs,
                  serverPtz, lifecycle, console, monitoringClick, settingsVars,
                  inputVars >>

\* A poll answers with a null body: the pan/tilt state is unavailable.
PtzFetchNull ==
  /\ dirty # "sync"
  /\ "poll" \in pollReqs
  /\ pollReqs' = pollReqs \ {"poll"}
  /\ ApplyFetched("poll", Null)
  /\ UNCHANGED << monitoring, monitoringRef, loops, absReqs, relReqs, homeReqs,
                  serverPtz, lifecycle, console, monitoringClick, settingsVars,
                  inputVars >>

\* Mutant of PollCatch: a failed poll clears the interval.
PollCatchStopsPolling(lc, log) ==
  [ lifecycle |-> [lc EXCEPT !.interval = FALSE], console |-> log ]

\* The catch of poll(): if (!cancelled) console.debug('PTZ poll failed').
PollCatch(lc, log) ==
  [ lifecycle |-> lc,
    console |-> IF lc.cancelled THEN log ELSE log \cup {PollFailedLog} ]

\* getPanTiltState fails: the initial load shows a toast, a poll only logs.
PtzFetchFail ==
  /\ dirty # "sync"
  /\ \E k \in pollReqs :
       /\ pollReqs' = pollReqs \ {k}
       /\ IF k = "load"
            THEN ShowToast(ErrorToast(PtzError)) /\ UNCHANGED << lifecycle, console >>
            ELSE /\ toast' = toast
                 /\ lifecycle' = PollCatch(lifecycle, console).lifecycle
                 /\ console' = PollCatch(lifecycle, console).console
  /\ UNCHANGED << ptz, monitoring, monitoringRef, rendered, dirty, loops, absReqs,
                  relReqs, homeReqs, serverPtz, monitoringClick, dropped,
                  settingsOnlyVars, inputVars >>

\* Mutant of PollCleanup: the interval is left running.
PollCleanupKeepTimer(lc) == [lc EXCEPT !.cancelled = TRUE]

\* Cleanup of the polling effect: cancelled = true; clearInterval(id).
PollCleanup(lc) == [lc EXCEPT !.cancelled = TRUE, !.interval = FALSE]

\* App is unmounted: React runs the cleanup of every effect (load: active =
\* false; poll; mirror: ref = false; sweep: cancelled = true; keydown:
\* listener removed) and drops the state that was not rendered yet.
Unmount ==
  /\ dirty # "sync"
  /\ lifecycle.mounted
  /\ lifecycle' = [PollCleanup(lifecycle) EXCEPT !.mounted = FALSE, !.active = FALSE]
  /\ monitoringRef' = FALSE
  /\ loops' = IF rendered.monitoring /\ rendered.ptz # Null
                THEN [loops EXCEPT ![Len(loops)].cancelled = TRUE]
                ELSE loops
  /\ dirty' = "none"
  /\ UNCHANGED << ptz, monitoring, rendered, absReqs, relReqs, homeReqs, pollReqs,
                  serverPtz, console, monitoringClick, dropped, settingsVars,
                  inputVars >>

\* The wait() timer a sweep loop is suspended in fires.
WaitElapsed ==
  /\ dirty # "sync"
  /\ \E i \in DOMAIN loops :
       /\ loops[i].pc \in WaitPcs
       /\ LET res == AfterWait(loops[i], monitoringRef)
          IN  /\ loops' = [loops EXCEPT ![i] = res.loop]
              /\ absReqs' = IF res.send THEN absReqs \cup {SweepRequest(i, res.loop)}
                                        ELSE absReqs
  /\ UNCHANGED << ptz, monitoring, monitoringRef, rendered, dirty, relReqs, homeReqs,
                  pollReqs, serverPtz, settingsVars, inputVars, appAuxVars >>

\* applyAbsolute: the response replaces the cached state; the loop that
\* awaited it goes on to its wait.
AbsoluteRespondOk ==
  /\ dirty # "sync"
  /\ \E r \in absReqs :
       /\ absReqs' = absReqs \ {r}
       /\ serverPtz' = ServerMove(serverPtz, r.pan_deg, r.tilt_deg)
       /\ SetPtz(serverPtz')
       /\ loops' = [loops EXCEPT ![r.loop] = AfterApply(@)]
  /\ UNCHANGED << monitoring, monitoringRef, relReqs, homeReqs, pollReqs,
                  settingsVars, inputVars, appAuxVars >>

\* applyAbsolute: a failure is caught inside applyAbsolute and shown as a
\* toast; safeApply returns normally.
AbsoluteRespondFail ==
  /\ dirty # "sync"
  /\ \E r \in absReqs :
       /\ absReqs' = absReqs \ {r}
       /\ loops' = [loops EXCEPT ![r.loop] = AfterApply(@)]
  /\ ShowToast(ErrorToast(PtzError))
  /\ UNCHANGED << ptz, monitoring, monitoringRef, rendered, dirty, relReqs, homeReqs,
                  pollReqs, serverPtz, settingsOnlyVars, inputVars, appAuxVars >>

\* ArrowDown and ArrowRight; ArrowUp and ArrowLeft mirror them.
ArrowDeltas == { << 0, -5 >>, << 5, 0 >> }

\* The monitoring sweep beside Home and the polls; a failing
\* getPanTiltState is left to PollNext and NudgeNext.
SweepNext ==
  \/ Commit
  \/ HandleToggleMonitoring
  \/ HandleHome
  \/ HomeRespondOk
  \/ HomeRespondFail
  \/ PollTick
  \/ PtzFetchOk
  \/ PtzFetchNull
  \/ WaitElapsed
  \/ AbsoluteRespondOk
  \/ AbsoluteRespondFail

\* The monitoring button and the polls that load and lose the state.
ToggleNext ==
  \/ Commit
  \/ MonitoringClick
  \/ PollTick
  \/ PtzFetchOk
  \/ PtzFetchNull
  \/ WaitElapsed
  \/ AbsoluteRespondOk

\* Loading and polling the state, arrow-key nudges, and the teardown of App.
PollNext ==
  \/ Commit
  \/ Unmount
  \/ PollTick
  \/ PtzFetchOk
  \/ PtzFetchNull
  \/ PtzFetchFail
  \/ \E d \in ArrowDeltas : KeyDownArrow(d[1], d[2])
  \/ RelativeRespondOk
  \/ RelativeRespondFail

\* Every request whose response is written to the cached state: the
\* load and the first poll, arrow-key nudges, sweep moves and Home, all
\* answered successfully.
CacheNext ==
  \/ Commit
  \/ HandleToggleMonitoring
  \/ HandleHome
  \/ HomeRespondOk
  \/ PtzFetchOk
  \/ \E d \in ArrowDeltas : KeyDownArrow(d[1], d[2])
  \/ RelativeRespondOk
  \/ WaitElapsed
  \/ AbsoluteRespondOk

\* The sweep with requests that succeed and fail, toggled on and off.
TerminationNext ==
  \/ Commit
  \/ HandleToggleMonitoring
  \/ PtzFetchOk
  \/ WaitElapsed
  \/ AbsoluteRespondOk
  \/ AbsoluteRespondFail

\* The wait timer of loop i fires; the request of loop i completes.
TimerFires(i) == WaitElapsed /\ i \in DOMAIN loops /\ loops'[i] # loops[i]

RequestCompletes(i) ==
  /\ AbsoluteRespondOk \/ AbsoluteRespondFail
  /\ i \in DOMAIN loops
  /\ loops'[i] # loops[i]

\* The arrow-key nudges beside the monitoring sweep.
NudgeNext ==
  \/ Commit
  \/ HandleToggleMonitoring
  \/ \E d \in ArrowDeltas : KeyDownArrow(d[1], d[2])
  \/ RelativeRespondOk
  \/ RelativeRespondFail
  \/ PtzFetchOk
  \/ PtzFetchFail
  \/ WaitElapsed
  \/ AbsoluteRespondOk
  \/ AbsoluteRespondFail

\* Limits that clamp each corner of the sweep plan, and limits that
\* collapse the pan range, the tilt range and both.
PlanLimitChoices ==
  { [pan |-> << -61, -57 >>, tilt |-> << 27, 31 >>],
    [pan |-> << 58, 63 >>,   tilt |-> << -31, -29 >>],
    [pan |-> << 70, 70 >>,   tilt |-> << -1, 1 >>],
    [pan |-> << -1, 1 >>,    tilt |-> << 0, 0 >>],
    [pan |-> << 0, 0 >>,     tilt |-> << 0, 0 >>] }

\* The sweep over each of these limits, without failures.
PlanNext ==
  \/ Commit
  \/ HandleToggleMonitoring
  \/ PtzFetchOk
  \/ WaitElapsed
  \/ AbsoluteRespondOk

\* The App component right after mounting: both effects have sent their
\* getPanTiltState request.
PtzClientInit ==
  /\ ptz = Null
  /\ monitoring = FALSE
  /\ monitoringRef = FALSE
  /\ rendered = [monitoring |-> FALSE, ptz |-> Null]
  /\ dirty = "none"
  /\ loops = << >>
  /\ absReqs = {}
  /\ relReqs = {}
  /\ homeReqs = 0
  /\ pollReqs = {"load", "poll"}
  /\ lifecycle = [mounted |-> TRUE, active |-> TRUE, cancelled |-> FALSE, interval |-> TRUE]
  /\ console = {}
  /\ monitoringClick = [n |-> 0, disabled |-> FALSE]
  /\ dropped = {}

PtzInit ==
  /\ PtzClientInit
  /\ serverPtz \in { [pan_deg |-> 0, tilt_deg |-> 0, limits |-> lim] :
                       lim \in LimitChoices }

\* The servo rests at the position nearest to 0/0 its limits allow.
PlanPtzInit ==
  /\ PtzClientInit
  /\ serverPtz \in { ServerMove([pan_deg |-> 0, tilt_deg |-> 0, limits |-> lim], 0, 0) :
                       lim \in PlanLimitChoices }

\* ------------------------------------------------ claims: monitoring sweep
\* Absolute-move requests sent in a step.
NewSweepRequests == absReqs' \ absReqs

\* C3: a sweep loop sends an absolute move only while monitoring is on and
\* only as long as it is the loop of the current sweep: once monitoring has
\* been set to false the loop sends nothing more.
C3_NoSweepRequestAfterOff ==
  [][ \A r \in NewSweepRequests :
        monitoring /\ monitoring' /\ r.loop = Len(loops') ]_vars

\* C3 witness: monitoring is off, the loop that was sweeping has returned
\* and nothing it sent is left in flight.
C3_Witness ==
  /\ ~monitoring
  /\ dirty = "none"
  /\ absReqs = {}
  /\ \E i \in DOMAIN loops : loops[i].pc = "done"

\* C4 as stated: no relative-move request is dispatched while monitoring is
\* on.
C4_NoNudgeWhileMonitoring ==
  [][ relReqs' \ relReqs # {} => ~monitoring ]_vars

\* C7 as stated: the home request is sent only after the sweep has observed
\* the cancellation: a loop that was running when Home was pressed is
\* cancelled (or sees the mirrored flag false) whenever that home request
\* has been sent.
C7_HomeSentAfterCancellation ==
  \A i \in DOMAIN loops :
    loops[i].homed => IsCancelled(loops[i], monitoringRef)

\* C7 amended: Home forces monitoring off and sends the home request in the
\* same handler, before the flags change; no loop that was running when
\* Home was pressed sends an absolute move afterwards.
C7_NoSweepRequestAfterHome ==
  [][ /\ homeReqs' > homeReqs => ~monitoring'
      /\ \A r \in NewSweepRequests : ~loops'[r.loop].homed ]_vars

\* C7 witness: Home was pressed during a sweep; the home request and the
\* loop's own request have been answered and the cancelled loop sits in its
\* last wait.
C7_Witness ==
  \E i \in DOMAIN loops :
    /\ loops[i].homed
    /\ loops[i].cancelled
    /\ loops[i].pc \in WaitPcs
    /\ homeReqs = 0
    /\ absReqs = {}

\* C13 as stated: a failed absolute move of a sweep step raises no toast
\* and the loop that awaited it goes on to its next wait.
C13_SweepFailureLoggedOnly ==
  [][ AbsoluteRespondFail =>
        /\ toast' = toast
        /\ \A i \in DOMAIN loops :
             loops[i].pc \in ApplyPcs /\ loops'[i] # loops[i] => loops'[i].pc \in WaitPcs ]_vars

\* C14: a click on the monitoring button while the cached PanTiltState is
\* null leaves monitoring false, issues no absolute-move request and shows
\* the 'not ready' toast; and a sweep loop that has not been cancelled runs
\* only while the rendered PanTiltState is non-null.
C14_NullToggleReportsNotReady ==
  /\ [][ MonitoringClick /\ ptz = Null =>
           /\ ~monitoring'
           /\ absReqs' = absReqs
           /\ toast' = NotReadyToast ]_vars
  /\ [](\A i \in DOMAIN loops :
          loops[i].pc # "done" /\ ~loops[i].cancelled => rendered.ptz # Null)

\* ------------------------------------------------- claims: sweep requests
\* The absolute moves of loop i that are in flight.
RequestsOf(i) == { r \in absReqs : r.loop = i }

\* C21 as stated: at most one absolute move of the sweep is in flight, also
\* across monitoring being toggled off and on again.
C21_OneSweepRequestInFlight == Cardinality(absReqs) <= 1

\* C21 amended: each sweep loop has at most one absolute move in flight and
\* is suspended on it until its response arrives; a request of a cancelled
\* loop may still be in flight when its successor sends its first one.
C21_OneRequestPerLoop ==
  /\ \A i \in DOMAIN loops : Cardinality(RequestsOf(i)) <= 1
  /\ \A r \in absReqs :
       /\ r.loop \in DOMAIN loops
       /\ loops[r.loop].pc \in ApplyPcs
       /\ r = SweepRequest(r.loop, loops[r.loop])
  /\ \A i \in DOMAIN loops : loops[i].pc \in ApplyPcs => RequestsOf(i) # {}

\* Monitoring was toggled off and on while a move was in flight: the
\* cancelled loop and its successor each have one request in flight.
C21_Witness ==
  /\ Len(loops) = 2
  /\ loops[1].cancelled /\ ~loops[2].cancelled
  /\ Cardinality(RequestsOf(1)) = 1
  /\ Cardinality(RequestsOf(2)) = 1

\* The pan extreme the current pass runs to.
FarPan(l) == IF l.panDirection = 1 THEN l.panRight ELSE l.panLeft

\* The pan direction of the pass that follows the wait l is suspended in.
PassDirection(l) == IF l.pc = "tiltWait" THEN -1 * l.panDirection ELSE l.panDirection

\* The tilt direction of the next tilt step: it flips at the extremes.
StepDirection(l) ==
  IF l.tiltDirection = -1 /\ l.currentTilt = l.tiltBottom THEN 1
  ELSE IF l.tiltDirection = 1 /\ l.currentTilt = l.tiltTop THEN -1
  ELSE l.tiltDirection

\* Loop l resumes into n with a pan request: one step of at most 2 degrees
\* in the direction of the pass, short only to land on the far extreme.
PanAdvance(l, n) ==
  /\ l.pc \in {"initWait", "panWait", "tiltWait"}
  /\ n.pc = "panApply"
  /\ n.panDirection = PassDirection(l)
  /\ n.currentTilt = l.currentTilt /\ n.tiltDirection = l.tiltDirection
  /\ n.panDirection * (n.currentPan - l.currentPan) \in 1..2
  /\ n.panDirection * (FarPan(n) - n.currentPan) >= 0
  /\ Abs(n.currentPan - l.currentPan) < 2 => n.currentPan = FarPan(n)

\* Loop l resumes into n with a tilt request: the pass has reached its far
\* extreme, pan is kept and tilt moves by at most 2 degrees.
TiltMove(l, n) ==
  /\ l.pc \in {"panWait", "panIdle"}
  /\ n.pc = "tiltApply"
  /\ l.currentPan = FarPan(l)
  /\ n.currentPan = l.currentPan /\ n.panDirection = l.panDirection
  /\ n.tiltDirection = StepDirection(l)
  /\ n.tiltDirection * (n.currentTilt - l.currentTilt) \in 1..2
  /\ n.currentTilt >= l.tiltBottom /\ n.currentTilt <= l.tiltTop

\* Loop l resumes into another wait without a request: the pan range is
\* empty, so the pass is over before it starts.
PanIdle(l, n) ==
  /\ l.pc \in {"initWait", "tiltWait"}
  /\ l.panLeft = l.panRight
  /\ n = [l EXCEPT !.pc = "panIdle", !.panDirection = PassDirection(l)]

\* Loop l resumes into another wait without a request: the tilt range is
\* empty, so there is no tilt step.
TiltSkip(l, n) ==
  /\ l.pc \in {"panWait", "panIdle"}
  /\ l.tiltTop = l.tiltBottom
  /\ l.currentPan = FarPan(l)
  /\ n = [l EXCEPT !.pc = "tiltWait"]

\* Loop i is resumed by this step and goes on (it was not cancelled).
Resumed(i) ==
  /\ i \in DOMAIN loops /\ i \in DOMAIN loops'
  /\ loops[i].pc \in WaitPcs
  /\ loops'[i] # loops[i]
  /\ loops'[i].pc # "done"
  /\ ~loops'[i].cancelled

\* C22 as stated: every resumption of an uncancelled loop either advances
\* pan towards the far extreme of the pass or, once that is reached, sends
\* exactly one tilt request, after which the pan direction reverses.
C22_PanPassThenOneTiltRequest ==
  [][ \A i \in 1..MaxSweeps :
        Resumed(i) => \/ PanAdvance(loops[i], loops'[i])
                      \/ TiltMove(loops[i], loops'[i])
                      \/ PanIdle(loops[i], loops'[i]) ]_vars

\* C22 amended: as above while the planned tilt range is not empty; with an
\* empty tilt range the pass is followed by a wait and no tilt request, and
\* the pan direction reverses all the same.
C22_PanPassThenTiltStep ==
  [][ \A i \in 1..MaxSweeps :
        Resumed(i) => \/ PanAdvance(loops[i], loops'[i])
                      \/ TiltMove(loops[i], loops'[i])
                      \/ PanIdle(loops[i], loops'[i])
                      \/ TiltSkip(loops[i], loops'[i]) ]_vars

\* A loop on its way back: after a tilt step below tiltTop the pan pass
\* runs to the left and its request is in flight.
C22_Witness ==
  \E i \in DOMAIN loops :
    /\ ~loops[i].cancelled
    /\ loops[i].pc = "panApply"
    /\ loops[i].panDirection = -1
    /\ loops[i].currentTilt < loops[i].tiltTop
    /\ loops[i].currentPan > loops[i].panLeft
    /\ RequestsOf(i) # {}

\* A response to a poll, an arrow-key nudge, a sweep move or Home was
\* received in this step.
ResponseReceived ==
  \/ pollReqs' # pollReqs /\ pollReqs' \subseteq pollReqs
  \/ relReqs' # relReqs /\ relReqs' \subseteq relReqs
  \/ absReqs' # absReqs /\ absReqs' \subseteq absReqs
  \/ homeReqs' < homeReqs

\* C24: the cached PanTiltState is the body of the successful response
\* received last, whatever the order the requests were sent in: every
\* received response replaces the cache by its body, nothing else writes
\* the cache, and the response of a sweep request is written whether or
\* not its loop has been cancelled in the meantime.
C24_CacheIsLastResponse ==
  [][ /\ IF ResponseReceived THEN ptz' = serverPtz' ELSE ptz' = ptz
      /\ \A r \in absReqs \ absReqs' :
           ptz' = ServerMove(serverPtz, r.pan_deg, r.tilt_deg)
    ]_vars

\* The first loop was cancelled with its pan step in flight, the second
\* loop's first move was answered, and then the first loop's answer
\* arrived and is the cached state.
C24_Witness ==
  /\ Len(loops) = 2
  /\ loops[1].cancelled /\ loops[1].pc = "panWait" /\ RequestsOf(1) = {}
  /\ ~loops[2].cancelled /\ loops[2].pc = "initWait"
  /\ ptz # Null
  /\ ptz = serverPtz
  /\ ptz.pan_deg = loops[1].currentPan
  /\ ptz.pan_deg # loops[2].currentPan

\* The limits a render of App works with.
LimitsOf(p) ==
  IF p = Null THEN [pan |-> << -90, 90 >>, tilt |-> << -70, 70 >>] ELSE p.limits

\* Between two renders the monitoring flag, the availability of the
\* PanTiltState or a limit value differs.
RenderChangesSweepInputs ==
  \/ rendered'.monitoring # rendered.monitoring
  \/ (rendered'.ptz = Null) # (rendered.ptz = Null)
  \/ LimitsOf(rendered'.ptz) # LimitsOf(rendered.ptz)

\* The cached PanTiltState is replaced by one with the same limits.
PositionOnlyUpdate ==
  /\ ptz # Null /\ ptz' # Null
  /\ ptz' # ptz
  /\ ptz'.limits = ptz.limits

\* C27: a running sweep is left alone by position-only updates.  A loop is
\* cancelled or started only in a render in which monitoring, the
\* availability of the PanTiltState or a limit value has changed, a started
\* loop begins at (panLeft, tiltTop), and a step that only replaces the
\* position neither starts nor cancels a loop nor touches the pan/tilt
\* progress or the directions of any loop.
C27_PositionUpdatesKeepSweep ==
  [][ /\ ( \/ Len(loops') > Len(loops)
           \/ \E i \in DOMAIN loops :
                ~loops[i].cancelled /\ loops'[i].cancelled /\ loops'[i].pc # "done" )
         => RenderChangesSweepInputs
      /\ Len(loops') > Len(loops) =>
           LET n == loops'[Len(loops')]
           IN  n.currentPan = n.panLeft /\ n.currentTilt = n.tiltTop
      /\ PositionOnlyUpdate =>
           /\ Len(loops') = Len(loops)
           /\ \A i \in DOMAIN loops :
                /\ loops'[i].cancelled = loops[i].cancelled
                /\ loops'[i].currentPan = loops[i].currentPan
                /\ loops'[i].currentTilt = loops[i].currentTilt
                /\ loops'[i].panDirection = loops[i].panDirection
                /\ loops'[i].tiltDirection = loops[i].tiltDirection
    ]_vars

\* C27 witness: the first loop is waiting after its first move, an
\* arrow-key nudge has since moved the cached pan away from the loop's pan,
\* the new position is rendered, and the loop is still the only one and
\* not cancelled.
C27_Witness ==
  /\ Len(loops) = 1
  /\ ~loops[1].cancelled
  /\ loops[1].pc = "initWait"
  /\ ptz # Null
  /\ ptz.pan_deg # loops[1].currentPan
  /\ rendered.ptz = ptz
  /\ rendered.monitoring
  /\ dirty = "none"

\* C28: a cancelled sweep loop terminates.  It sends no request any more;
\* when the request it awaits completes it goes to the wait that follows,
\* when the wait it is in elapses cycle() returns; and with every request
\* completing and every timer firing each cancelled loop does return.
C28_CancelledLoopTerminates ==
  /\ [][ \A i \in DOMAIN loops :
           (loops[i].cancelled /\ loops[i].pc # "done") =>
             /\ { r \in absReqs' : r.loop = i } \subseteq RequestsOf(i)
             /\ loops'[i].cancelled
             /\ (loops[i].pc \in ApplyPcs /\ loops'[i] # loops[i]) =>
                  loops'[i] = AfterApply(loops[i])
             /\ (loops[i].pc \in WaitPcs /\ loops'[i] # loops[i]) =>
                  loops'[i].pc = "done" ]_vars
  /\ \A i \in 1..MaxSweeps :
       (i \in DOMAIN loops /\ loops[i].cancelled)
         ~> (i \in DOMAIN loops /\ loops[i].pc = "done")

\* C28 witness: the first loop has returned after its cancellation and the
\* second loop, cancelled with a request in flight, has not yet.
C28_Witness ==
  /\ Len(loops) = 2
  /\ loops[1].pc = "done"
  /\ loops[2].cancelled
  /\ loops[2].pc \in ApplyPcs
  /\ RequestsOf(2) # {}

\* -------------------------------------------------- claims: preset, reset
\* Keys of the partials of the calls a flush serves.
KeysOfListeners(f) ==
  UNION { DOMAIN calls[f.listeners[j]].partial : j \in DOMAIN f.listeners }

WaitingResets == { c \in DOMAIN calls : calls[c].kind = "reset" /\ calls[c].flush = 0 }

\* C19: a non-debounced patchCameraSettings call leaves no debounce timer
\* scheduled and triggers its flush in the call itself: with no request in
\* flight its request is sent at once, otherwise its flush is queued behind
\* the request in flight; the debounce timer never sends it.
C19_ImmediateFlush ==
  /\ [][ HandleResetSettings =>
           LET c == Len(calls')
           IN  /\ ~patchTimer'
               /\ InFlight(flushes) = {} =>
                     /\ calls'[c].flush \in InFlight(flushes')
                     /\ flushes'[calls'[c].flush].payload = Merge(pendingPatch, initialSettings)
               /\ InFlight(flushes) # {} =>
                     calls'[c].flush = 0 /\ flushChain' = flushChain + 1 ]_vars
  /\ [][ PatchTimerFire => \A c \in WaitingResets : calls'[c].flush = 0 ]_vars
  /\ [](WaitingResets # {} => flushChain >= 1 /\ InFlight(flushes) # {})

\* A reset called while the debounce timer of a change was pending: the
\* timer is gone and one request carrying both calls is in flight.
C19_Witness ==
  \E c \in DOMAIN calls :
    /\ calls[c].kind = "reset" /\ calls[c].joined
    /\ ~patchTimer
    /\ calls[c].flush \in InFlight(flushes)
    /\ Len(flushes[calls[c].flush].listeners) >= 2

\* The partials of the given calls merged in call order.
RECURSIVE MergedPartials(_)
MergedPartials(listeners) ==
  IF listeners = << >>
    THEN EmptyObj
    ELSE Merge(MergedPartials(SubSeq(listeners, 1, Len(listeners) - 1)),
               calls[listeners[Len(listeners)]].partial)

\* C23: the pending patch is handed over when a flush is dispatched: the
\* payload of a flush is the merge of the partials of the callers it took
\* and never changes afterwards, the pending patch holds exactly the
\* partials of the callers still waiting (so nothing of a dispatched or
\* failed flush stays behind, and a non-empty pending patch has a waiting
\* caller), and every call is either waiting or taken by one flush.
C23_PatchClearedAtDispatch ==
  /\ [][ \A i \in DOMAIN flushes :
           /\ flushes'[i].payload = flushes[i].payload
           /\ flushes'[i].listeners = flushes[i].listeners ]_vars
  /\ [](\A i \in DOMAIN flushes : flushes[i].payload = MergedPartials(flushes[i].listeners))
  /\ [](pendingPatch = MergedPartials(patchWaiters))
  /\ [](pendingPatch # EmptyObj => patchWaiters # << >>)
  /\ [](\A c \in DOMAIN calls :
          IF \E j \in DOMAIN patchWaiters : patchWaiters[j] = c
            THEN calls[c].flush = 0
            ELSE /\ calls[c].flush \in DOMAIN flushes
                 /\ \E j \in DOMAIN flushes[calls[c].flush].listeners :
                      flushes[calls[c].flush].listeners[j] = c)

\* A flush failed, a later flush carrying other keys is in flight, and a
\* call made since waits with its keys in the pending patch.
C23_Witness ==
  /\ Len(flushes) >= 2
  /\ flushes[1].status = "err"
  /\ flushes[1].payload # EmptyObj
  /\ flushes[2].status = "inflight"
  /\ DOMAIN flushes[1].payload \cap DOMAIN flushes[2].payload = {}
  /\ patchWaiters # << >>
  /\ DOMAIN pendingPatch \cap DOMAIN flushes[2].payload = {}
  /\ pendingPatch # EmptyObj

\* C29: every promise patchCameraSettings returns is settled exactly once.
\* A settled call keeps its outcome and its result, a call is settled only
\* by the response of the flush that took it, and with the timer firing
\* and every request completing each call is eventually settled: a failed
\* flush does not keep the queued one from running, and callers that wait
\* while a request is in flight are taken by a later flush.  Calls are
\* never removed, so "again and again no call is pending" gives every call
\* a later state in which it is settled.
C29_EveryCallSettledOnce ==
  /\ [][ \A c \in DOMAIN calls :
           /\ calls[c].outcome # "pending" =>
                /\ calls'[c].outcome = calls[c].outcome
                /\ calls'[c].result = calls[c].result
           /\ (calls[c].outcome = "pending" /\ calls'[c].outcome # "pending") =>
                /\ calls[c].flush \in InFlight(flushes)
                /\ flushes'[calls[c].flush].status =
                     (IF calls'[c].outcome = "resolved" THEN "ok" ELSE "err") ]_vars
  /\ []<>(\A c \in DOMAIN calls : calls[c].outcome # "pending")

\* C29 witness: the first flush failed, the second one resolved its
\* callers, the third is in flight, and a caller that arrived since waits
\* for the flush queued behind it.
C29_Witness ==
  /\ Len(flushes) = 3
  /\ flushes[1].status = "err"
  /\ flushes[2].status = "ok"
  /\ \A j \in DOMAIN flushes[2].listeners :
       calls[flushes[2].listeners[j]].outcome = "resolved"
  /\ flushes[3].status = "inflight"
  /\ patchWaiters # << >>
  /\ flushChain > 0

\* No caller of patchCameraSettings waits: no waiter is pending and no
\* request of a flush is in flight.
NoCallerAwaiting == patchWaiters = << >> /\ InFlight(flushes) = {}

\* C30: whenever no caller awaits a flush the displayed settings are the
\* contents of the lastKnownSettings cell, after any sequence of debounced
\* changes and resets whose requests succeed or fail.
C30_DisplayIsLastKnownWhenIdle ==
  NoCallerAwaiting => settings = lastKnownSettings

\* C30 witness: a flush has failed and another has succeeded, nobody
\* waits, and display and cell agree on settings that differ from the last
\* response of the server.
C30_Witness ==
  /\ NoCallerAwaiting
  /\ \E i \in DOMAIN flushes : flushes[i].status = "err"
  /\ \E i \in DOMAIN flushes : flushes[i].status = "ok"
  /\ settings # Null
  /\ settings = lastKnownSettings
  /\ lastKnownSettings # lastConfirmed

\* -------------------------------------------------------- claims: polling
\* A step in which the catch of poll() handles a failed getPanTiltState.
PollFailureStep == PtzFetchFail /\ "poll" \in pollReqs /\ "poll" \notin pollReqs'

\* C15: a failed poll is logged and shows no toast, leaves the cached
\* PanTiltState as it was and leaves the polling interval running.
C15_PollFailureLoggedOnly ==
  [][ PollFailureStep =>
        /\ toast' = toast
        /\ ptz' = ptz /\ rendered' = rendered /\ dirty' = dirty
        /\ lifecycle' = lifecycle
        /\ lifecycle.mounted => lifecycle.interval /\ PollFailedLog \in console' ]_vars

\* A poll has failed and the interval has issued the next one.
C15_Witness ==
  /\ PollFailedLog \in console
  /\ lifecycle.mounted
  /\ "poll" \in pollReqs

\* C16: once App is torn down the polling interval is cleared, no further
\* poll is issued, and no answer changes the cached PanTiltState.
C16_NoPollAfterTeardown ==
  /\ [](~lifecycle.mounted => ~lifecycle.interval /\ lifecycle.cancelled)
  /\ [][ ~lifecycle.mounted =>
           /\ pollReqs' \subseteq pollReqs
           /\ ptz' = ptz /\ rendered' = rendered /\ dirty' = dirty ]_vars

\* After the teardown a poll was answered while the cached state differed
\* from the state of the servo service, and the answer was discarded.
C16_Witness ==
  /\ ~lifecycle.mounted
  /\ "poll" \in dropped
  /\ ptz # Null /\ ptz # serverPtz

\* ----------------------------------------------------- claims: sweep plan
\* The value nearest to target inside [lim[1], lim[2]].
Nearest(target, lim) ==
  IF lim[1] > target THEN lim[1] ELSE IF lim[2] < target THEN lim[2] ELSE target

\* The plan of a loop started on PanTiltState p.
PlanOf(p) == NewLoop(SweepDeps(TRUE, p))

ExampleState(pan, tilt) ==
  [pan_deg |-> 0, tilt_deg |-> 0, limits |-> [pan |-> pan, tilt |-> tilt]]

\* C11: every sweep loop is planned from the limits of the PanTiltState:
\* panLeft and panRight are -60 and 60, tiltTop and tiltBottom 30 and -30,
\* each moved to the nearest value inside the limits, and the first request
\* of the loop is {panLeft, tiltTop}.  The two examples of the
\* specification are evaluated as well.
C11_PlanFromLimits ==
  /\ \A i \in DOMAIN loops :
       /\ loops[i].panLimits = serverPtz.limits.pan
       /\ loops[i].tiltLimits = serverPtz.limits.tilt
       /\ loops[i].panLeft = Nearest(-60, serverPtz.limits.pan)
       /\ loops[i].panRight = Nearest(60, serverPtz.limits.pan)
       /\ loops[i].tiltTop = Nearest(30, serverPtz.limits.tilt)
       /\ loops[i].tiltBottom = Nearest(-30, serverPtz.limits.tilt)
       /\ loops[i].pc = "initApply" =>
            [loop |-> i, pan_deg |-> Nearest(-60, serverPtz.limits.pan),
             tilt_deg |-> Nearest(30, serverPtz.limits.tilt)] \in absReqs
  /\ \A r \in absReqs :
       loops[r.loop].pc = "initApply" =>
         /\ r.pan_deg = Nearest(-60, serverPtz.limits.pan)
         /\ r.tilt_deg = Nearest(30, serverPtz.limits.tilt)
  /\ LET wide == PlanOf(ExampleState(<< -90, 90 >>, << -30, 30 >>))
         narrow == PlanOf(ExampleState(<< -40, 40 >>, << -30, 30 >>))
     IN  /\ << wide.panLeft, wide.panRight, wide.tiltTop, wide.tiltBottom >>
              = << -60, 60, 30, -30 >>
         /\ << wide.currentPan, wide.currentTilt >> = << -60, 30 >>
         /\ << narrow.panLeft, narrow.panRight >> = << -40, 40 >>

\* C11 witness: a sweep has started on the limits pan [58, 63], tilt
\* [-31, -29] and its first request is in flight.
C11_Witness ==
  \E r \in absReqs :
    /\ loops[r.loop].pc = "initApply"
    /\ serverPtz.limits = [pan |-> << 58, 63 >>, tilt |-> << -31, -29 >>]
    /\ r.pan_deg = 58
    /\ r.tilt_deg = -29

PanCollapsed == Nearest(60, serverPtz.limits.pan) = Nearest(-60, serverPtz.limits.pan)

TiltCollapsed == Nearest(30, serverPtz.limits.tilt) = Nearest(-30, serverPtz.limits.tilt)

\* C12: when the planned pan range is empty every request of the sweep
\* carries panLeft, when the planned tilt range is empty every request
\* carries tiltTop, and when both are empty the first request of a loop is
\* its only one.
C12_CollapsedAxisHeld ==
  \A r \in absReqs :
    /\ PanCollapsed => r.pan_deg = Nearest(-60, serverPtz.limits.pan)
    /\ TiltCollapsed => r.tilt_deg = Nearest(30, serverPtz.limits.tilt)
    /\ (PanCollapsed /\ TiltCollapsed) => loops[r.loop].pc = "initApply"

\* C12 witness: the tilt range is empty and the loop, past its first
\* request, has a pan step in flight that carries tiltTop.
C12_Witness ==
  \E r \in absReqs :
    /\ TiltCollapsed
    /\ ~PanCollapsed
    /\ loops[r.loop].pc = "panApply"
    /\ r.pan_deg # Nearest(-60, serverPtz.limits.pan)
    /\ r.tilt_deg = Nearest(30, serverPtz.limits.tilt)

\* C26: every target the sweep loop sends lies inside its plan, panLeft <=
\* pan_deg <= panRight and tiltBottom <= tilt_deg <= tiltTop, and so
\* inside the limits the plan was clamped to; the loop's own position
\* never leaves the plan either.
C26_TargetsInsidePlan ==
  /\ \A r \in absReqs :
       LET l == loops[r.loop]
       IN  /\ l.panLeft <= r.pan_deg /\ r.pan_deg <= l.panRight
           /\ l.tiltBottom <= r.tilt_deg /\ r.tilt_deg <= l.tiltTop
           /\ l.panLimits[1] <= r.pan_deg /\ r.pan_deg <= l.panLimits[2]
           /\ l.tiltLimits[1] <= r.tilt_deg /\ r.tilt_deg <= l.tiltLimits[2]
  /\ \A i \in DOMAIN loops :
       /\ loops[i].panLeft <= loops[i].currentPan
       /\ loops[i].currentPan <= loops[i].panRight
       /\ loops[i].tiltBottom <= loops[i].currentTilt
       /\ loops[i].currentTilt <= loops[i].tiltTop

\* C26 witness: after the tilt has turned at the bottom and the pan pass
\* has turned at the right, a pan step strictly inside the plan, at a tilt
\* strictly inside the plan, is in flight.
C26_Witness ==
  \E r \in absReqs :
    LET l == loops[r.loop]
    IN  /\ l.pc = "panApply"
        /\ l.panDirection = -1
        /\ l.tiltDirection = 1
        /\ l.panLeft < r.pan_deg /\ r.pan_deg < l.panRight
        /\ l.tiltBottom < r.tilt_deg /\ r.tilt_deg < l.tiltTop

\* ------------------------------------------- Joystick and VideoPanel drags
\* Vector components and pointer offsets are in hundredths of the joystick
\* radius: the pair << 30, -40 >> is {x: 0.3, y: -0.4}.
NoPointer == 0

PointerIds == {1, 2}

ZeroVector == << 0, 0 >>

\* Pointer offsets from the centre, divided by the radius (rawX, rawY).
\* Every offset has an integral length, so Math.hypot is exact on them.
RawChoices == { << 0, 0 >>, << 5, 0 >>, << 30, -40 >>, << 60, 80 >>, << 120, -160 >> }

\* The square of Math.hypot(v.x, v.y), in ten-thousandths.
HypotSq(v) == v[1] * v[1] + v[2] * v[2]

\* Math.hypot on the offsets above.
Hypot(v) == CHOOSE r \in 0..300 : r * r <= HypotSq(v) /\ HypotSq(v) < (r + 1) * (r + 1)

Clamp1(x) == Max(-100, Min(100, x))

\* Joystick updateVector: offsets longer than the radius are scaled onto
\* the unit circle, then each axis is clamped to [-1, 1].
JoystickUpdateVector(raw) ==
  LET length == Hypot(raw)
      scaled == IF length > 100
                  THEN << (raw[1] * 100) \div length, (raw[2] * 100) \div length >>
                  ELSE raw
  IN << Clamp1(scaled[1]), Clamp1(scaled[2]) >>

\* VideoPanel updateVector: each axis is clamped on its own.
VideoPanelUpdateVector(raw) == << Clamp1(raw[1]), Clamp1(raw[2]) >>

\* mag < 0.1 for mag = Math.min(1, Math.hypot(x, y)).
InDeadzone(v) == Min(10000, HypotSq(v)) < 100

\* const mag / magnitude = Math.min(1, Math.hypot(x, y)), in hundredths.
Magnitude(v) == Min(100, Hypot(v))

Sign(a) == IF a < 0 THEN -1 ELSE IF a > 0 THEN 1 ELSE 0

\* VideoPanel: INTERVAL_MS, and MAX_SPEED in degrees per second.
INTERVAL_MS == 120
MAX_SPEED == 30

\* Joystick: TICK_MS.
TICK_MS == 50

\* Mutant of PowExponent: the exponent is -1.
PowNegativeExponent(m) == IF m < 10 THEN 5000 ELSE 5000 \div m

\* Math.pow(magnitude, EXPONENT) with EXPONENT = 1.6 = 8/5, in fixed point:
\* the magnitude is taken in tenths and the power in fiftieths, rounded
\* down; the power of 1 is exactly 1.
PowExponent(m) ==
  LET k == m \div 10
      p == ((k * k * k * k * k * k * k * k) \div 1000) * 3125
  IN  CHOOSE g \in 0..50 :
        /\ g * g * g * g * g <= p
        /\ (g + 1) * (g + 1) * (g + 1) * (g + 1) * (g + 1) > p

\* VideoPanel tick: gain = pow(magnitude) * INTERVAL_MS / 1000, dpan =
\* sign(x) * |x| * MAX_SPEED * gain, dtilt = -sign(y) * |y| * MAX_SPEED *
\* gain; the delta in thousandths of a degree.
VideoPanelDelta(v) ==
  LET g == PowExponent(Magnitude(v))
      axis(a) == (Abs(a) * MAX_SPEED * INTERVAL_MS * g) \div 5000
  IN  << Sign(v[1]) * axis(v[1]), -Sign(v[2]) * axis(v[2]) >>

StepsAlwaysOne(v) == 1

\* steps = Math.ceil(mag * 2): the least n with n >= 2 * mag.
Steps(v) ==
  CHOOSE n \in 0..2 :
    /\ n * n * 10000 >= 4 * Min(10000, HypotSq(v))
    /\ n > 0 => (n - 1) * (n - 1) * 10000 < 4 * Min(10000, HypotSq(v))

\* ptzNudge(vector.x * NUDGE_DEG, -vector.y * NUDGE_DEG) with NUDGE_DEG =
\* 0.5: the payload in two-hundredths of a degree.
NudgePayload(v) == [ pan_deg |-> v[1], tilt_deg |-> -v[2] ]

\* What one Joystick tick asks for in all: its requests added up, in
\* thousandths of a degree.
JoystickDelta(v) ==
  LET steps == IF InDeadzone(v) THEN 0 ELSE Steps(v)
  IN  << steps * 5 * NudgePayload(v).pan_deg, steps * 5 * NudgePayload(v).tilt_deg >>

RECURSIVE Repeat(_, _)
Repeat(x, n) == IF n = 0 THEN << >> ELSE << x >> \o Repeat(x, n - 1)

RemoveAt(seq, i) == SubSeq(seq, 1, i - 1) \o SubSeq(seq, i + 1, Len(seq))

\* pointerdown on the joystick.
JoystickDown(p, raw) ==
  /\ pointerId' = p
  /\ activeRef' = TRUE
  /\ active' = TRUE
  /\ vector' = JoystickUpdateVector(raw)
  /\ UNCHANGED << nudgeReqs, nudgeErrors, videoPanelVars, lastTick, padVars,
                  settingsVars, ptzVars >>

\* pointermove on the joystick.
JoystickMove(p, raw) ==
  /\ activeRef
  /\ pointerId = p
  /\ vector' = JoystickUpdateVector(raw)
  /\ UNCHANGED << active, activeRef, pointerId, nudgeReqs, nudgeErrors, videoPanelVars, lastTick,
                  padVars, settingsVars, ptzVars >>

\* Mutant of JoystickEnd: the release leaves the component active, so the
\* interval is not cleared.
JoystickEndKeepsTimer(p) ==
  /\ pointerId = p
  /\ pointerId' = NoPointer
  /\ activeRef' = FALSE
  /\ active' = active
  /\ vector' = ZeroVector
  /\ UNCHANGED << nudgeReqs, nudgeErrors, videoPanelVars, lastTick, padVars,
                  settingsVars, ptzVars >>

\* pointerup or pointercancel on the joystick.
JoystickEnd(p) ==
  /\ pointerId = p
  /\ pointerId' = NoPointer
  /\ activeRef' = FALSE
  /\ active' = FALSE
  /\ vector' = ZeroVector
  /\ UNCHANGED << nudgeReqs, nudgeErrors, videoPanelVars, lastTick, padVars,
                  settingsVars, ptzVars >>

\* The 50 ms interval of the Joystick fires; it exists while active is true
\* and its callback reads the vector of the render that created it.
JoystickTick ==
  /\ active
  /\ LET steps == IF InDeadzone(vector) THEN 0 ELSE Steps(vector)
     IN /\ Len(nudgeReqs) + steps <= MaxNudgeInFlight
        /\ nudgeReqs' = nudgeReqs \o Repeat(NudgePayload(vector), steps)
        /\ lastTick' = [ source |-> "Joystick", vector |-> vector, sent |-> steps,
                         delta |-> JoystickDelta(vector) ]
  /\ UNCHANGED << active, activeRef, pointerId, vector, nudgeErrors, videoPanelVars,
                  padVars, settingsVars, ptzVars >>

\* A nudge request completes; the Joystick drops the result.
NudgeRespond ==
  /\ \E i \in 1..Len(nudgeReqs) : nudgeReqs' = RemoveAt(nudgeReqs, i)
  /\ UNCHANGED << active, activeRef, pointerId, vector, nudgeErrors, videoPanelVars,
                  lastTick, padVars, settingsVars, ptzVars >>

\* A nudge request is answered with an error status: ptzNudge throws, the
\* promise the Joystick holds is rejected.
NudgeReject ==
  /\ nudgeErrors < MaxNudgeErrors
  /\ \E i \in 1..Len(nudgeReqs) : nudgeReqs' = RemoveAt(nudgeReqs, i)
  /\ nudgeErrors' = nudgeErrors + 1
  /\ UNCHANGED << active, activeRef, pointerId, vector, videoPanelVars, lastTick,
                  padVars, settingsVars, ptzVars >>

\* The Joystick's handler of a rejected nudge: .catch(() => {}).
JoystickCatch ==
  /\ nudgeErrors > 0
  /\ nudgeErrors' = nudgeErrors - 1
  /\ UNCHANGED << active, activeRef, pointerId, vector, nudgeReqs, videoPanelVars,
                  lastTick, padVars, settingsVars, ptzVars >>

\* pointerdown on the thumb of the VideoPanel handle.
VideoPanelPointerDown(raw) ==
  /\ dragging' = TRUE
  /\ vpVector' = VideoPanelUpdateVector(raw)
  /\ vpListening' = TRUE
  /\ UNCHANGED << joystickVars, lastTick, padVars, settingsVars, ptzVars >>

\* pointermove on the window.
VideoPanelPointerMove(raw) ==
  /\ vpListening
  /\ vpVector' = VideoPanelUpdateVector(raw)
  /\ UNCHANGED << dragging, vpListening, joystickVars, lastTick, padVars,
                  settingsVars, ptzVars >>

\* pointerup on the window.
VideoPanelPointerUp ==
  /\ vpListening
  /\ dragging' = FALSE
  /\ vpVector' = ZeroVector
  /\ vpListening' = FALSE
  /\ UNCHANGED << joystickVars, lastTick, padVars, settingsVars, ptzVars >>

\* The 120 ms interval of the VideoPanel fires: it returns only when both
\* components are zero and otherwise calls onRelativeMove once.
VideoPanelTick ==
  /\ dragging
  /\ lastTick' = [ source |-> "VideoPanel", vector |-> vpVector,
                   sent |-> IF vpVector[1] = 0 /\ vpVector[2] = 0 THEN 0 ELSE 1,
                   delta |-> IF vpVector[1] = 0 /\ vpVector[2] = 0
                               THEN ZeroVector ELSE VideoPanelDelta(vpVector) ]
  /\ UNCHANGED << dragging, vpVector, vpListening, joystickVars, padVars,
                  settingsVars, ptzVars >>

DragNext ==
  \/ \E p \in PointerIds, raw \in RawChoices : JoystickDown(p, raw)
  \/ \E p \in PointerIds, raw \in RawChoices : JoystickMove(p, raw)
  \/ \E p \in PointerIds : JoystickEnd(p)
  \/ JoystickTick
  \/ NudgeRespond
  \/ NudgeReject
  \/ JoystickCatch
  \/ \E raw \in RawChoices : VideoPanelPointerDown(raw)
  \/ \E raw \in RawChoices : VideoPanelPointerMove(raw)
  \/ VideoPanelPointerUp
  \/ VideoPanelTick

DragInit ==
  /\ active = FALSE
  /\ activeRef = FALSE
  /\ pointerId = NoPointer
  /\ vector = ZeroVector
  /\ nudgeReqs = << >>
  /\ nudgeErrors = 0
  /\ dragging = FALSE
  /\ vpVector = ZeroVector
  /\ vpListening = FALSE
  /\ lastTick = [ source |-> "none", vector |-> ZeroVector, sent |-> 0,
                  delta |-> ZeroVector ]

\* ------------------------------------------------------ claims: drag ticks
\* The per-tick delta a source computes for a stored vector, and the
\* vectors the source can store.
TickDelta(source, v) ==
  IF source = "Joystick" THEN JoystickDelta(v) ELSE VideoPanelDelta(v)

StoredVectors(source) ==
  IF source = "Joystick" THEN { JoystickUpdateVector(raw) : raw \in RawChoices }
                         ELSE { VideoPanelUpdateVector(raw) : raw \in RawChoices }

\* MAX_SPEED * interval_seconds, in thousandths of a degree.
MaxTickDelta(source) ==
  IF source = "Joystick" THEN MAX_SPEED * TICK_MS ELSE MAX_SPEED * INTERVAL_MS

C25_NudgesOnlyFromActiveTicks ==
  /\ [](active <=> pointerId # NoPointer)
  /\ [](~active => vector = ZeroVector /\ ~activeRef)
  /\ [][ /\ Len(nudgeReqs') > Len(nudgeReqs) =>
              /\ active /\ active'
              /\ vector' = vector /\ pointerId' = pointerId
              /\ lastTick'.source = "Joystick" /\ lastTick'.vector = vector
              /\ nudgeReqs' = nudgeReqs \o Repeat(NudgePayload(vector), lastTick'.sent)
         /\ vector' # vector => nudgeReqs' = nudgeReqs
         /\ (pointerId # NoPointer /\ pointerId' = NoPointer) =>
              /\ vector' = ZeroVector /\ ~active'
              /\ nudgeReqs' = nudgeReqs
         /\ (~active /\ ~active') => Len(nudgeReqs') <= Len(nudgeReqs)
       ]_vars

\* A drag whose tick sent requests has been released while they are still
\* in flight.
C25_Witness ==
  /\ ~active /\ vector = ZeroVector /\ pointerId = NoPointer
  /\ lastTick.source = "Joystick" /\ lastTick.sent > 0
  /\ Len(nudgeReqs) > 0

\* C17: whichever input sent it, a failed relative move is shown as an error
\* toast, is not sent again, and leaves the cached PanTiltState unchanged.
C17_RelativeFailureToasted ==
  [][ JoystickCatch \/ RelativeRespondFail =>
        /\ toast' = ErrorToast(PtzError)
        /\ nudgeReqs' = nudgeReqs /\ relReqs' \subseteq relReqs
        /\ ptz' = ptz ]_vars


\* C8 as stated: a tick on a vector outside the deadzone dispatches exactly
\* one request, in the Joystick and in the VideoPanel.
C8_OneRequestPerTick ==
  (lastTick.source # "none" /\ ~InDeadzone(lastTick.vector)) => lastTick.sent = 1

\* C8 amended: outside the deadzone a Joystick tick dispatches one request
\* for a magnitude up to 0.5 and two identical requests above 0.5; a
\* VideoPanel tick dispatches exactly one.
C8_RequestsPerTick ==
  /\ (lastTick.source = "Joystick" /\ ~InDeadzone(lastTick.vector)) =>
       lastTick.sent = (IF HypotSq(lastTick.vector) <= 2500 THEN 1 ELSE 2)
  /\ (lastTick.source = "VideoPanel" /\ ~InDeadzone(lastTick.vector)) =>
       lastTick.sent = 1

\* C8 witness: a Joystick tick at full deflection has just sent its two
\* requests.
C8_Witness ==
  /\ lastTick.source = "Joystick"
  /\ HypotSq(lastTick.vector) = 10000
  /\ lastTick.sent = 2
  /\ Len(nudgeReqs) = 2

\* C9 as stated: a tick on a vector inside the deadzone dispatches nothing,
\* in every tick loop.
C9_NoRequestInDeadzone ==
  (lastTick.source # "none" /\ InDeadzone(lastTick.vector)) => lastTick.sent = 0

\* -------------------------------------------------------- PTZControls pad
\* Step sizes and deltas of the pad are in tenths of a degree.
step == 50

\* safeStep: the step prop, or 5 degrees when it is not a positive number.
safeStep == IF step <= 0 THEN 50 ELSE step

\* smoothStep = Math.max(0.1, safeStep / 10).
smoothStep == Max(1, safeStep \div 10)

\* (panMultiplier, tiltMultiplier) of two of the four arrow buttons.
PadButtons == { << 0, 1 >>, << 1, 0 >> }

\* event.button of a pointerdown: primary or secondary.
MouseButtons == {0, 2}

NoTimer == << >>

Delta(dir, size) == [ dpan_deg |-> dir[1] * size, dtilt_deg |-> dir[2] * size ]

\* handleMove: the calls of onRelativeMove it makes.
handleMove(disabled, delta) == IF disabled THEN << >> ELSE << delta >>

clearPointerState(ps) ==
  [ps EXCEPT !.timer = NoTimer, !.resetTimer = FALSE, !.pointerId = NoPointer]

\* Mutant of onClick: the click handler without the suppressClick test.
onClickUnsuppressed(ps, disabled, dir) == handleMove(disabled, Delta(dir, safeStep))

\* onClick of a directional button: the calls of onRelativeMove it makes.
onClick(ps, disabled, dir) ==
  IF ps.suppressClick THEN << >> ELSE handleMove(disabled, Delta(dir, safeStep))

\* stopContinuousMove, the handler of pointerup, pointercancel and
\* pointerleave.
stopContinuousMove(ps, p) ==
  IF ps.pointerId # NoPointer /\ p # ps.pointerId
    THEN ps
    ELSE [clearPointerState(ps) EXCEPT !.resetTimer = TRUE]

\* pointerdown on an arrow button: startContinuousMove, which returns at
\* once when the pad is disabled or the press is not a primary one.
PadPointerDown(p, dir, button) ==
  /\ gesture.phase # "up"
  /\ IF ~isRelativeDisabled /\ button = 0
       THEN /\ pointerState' = [ timer |-> << dir >>, pointerId |-> p,
                                 suppressClick |-> TRUE, resetTimer |-> FALSE ]
            /\ gesture' = [ phase |-> "down", pointer |-> p, dir |-> dir,
                            sent |-> handleMove(isRelativeDisabled, Delta(dir, smoothStep)),
                            ticked |-> FALSE, enabled |-> TRUE, suppressed |-> FALSE ]
       ELSE UNCHANGED << pointerState, gesture >>
  /\ UNCHANGED << isRelativeDisabled, joystickVars, videoPanelVars, lastTick,
                  settingsVars, ptzVars >>

\* The 50 ms interval of a held button fires: performMove of the render
\* that started it, in which the pad was enabled.
PadHoldTick ==
  /\ gesture.phase # "up"
  /\ pointerState.timer # NoTimer
  /\ Len(gesture.sent) < MaxPadMoves
  /\ gesture' = [gesture EXCEPT
                   !.sent = @ \o handleMove(FALSE, Delta(pointerState.timer[1], smoothStep)),
                   !.ticked = TRUE]
  /\ UNCHANGED << isRelativeDisabled, pointerState, joystickVars, videoPanelVars,
                  lastTick, settingsVars, ptzVars >>

\* pointerup on the button; the browser dispatches the click of a primary
\* press right after it, before any timer.
PadPointerUp(p) ==
  /\ gesture.phase # "up"
  /\ pointerState' = stopContinuousMove(pointerState, p)
  /\ gesture' = IF gesture.phase = "down" /\ p = gesture.pointer
                  THEN [gesture EXCEPT !.phase = "up"]
                  ELSE gesture
  /\ UNCHANGED << isRelativeDisabled, joystickVars, videoPanelVars, lastTick,
                  settingsVars, ptzVars >>

\* pointercancel or pointerleave on the button: no click follows.
PadPointerLeave(p) ==
  /\ gesture.phase # "up"
  /\ pointerState' = stopContinuousMove(pointerState, p)
  /\ gesture' = IF gesture.phase = "down" /\ p = gesture.pointer
                  THEN [gesture EXCEPT !.phase = "idle"]
                  ELSE gesture
  /\ UNCHANGED << isRelativeDisabled, joystickVars, videoPanelVars, lastTick,
                  settingsVars, ptzVars >>

\* The click event that ends a pointer press.
PadClick ==
  /\ gesture.phase = "up"
  /\ gesture' = [gesture EXCEPT
                   !.phase = "click",
                   !.suppressed = pointerState.suppressClick,
                   !.sent = @ \o onClick(pointerState, isRelativeDisabled, gesture.dir)]
  /\ UNCHANGED << isRelativeDisabled, pointerState, joystickVars, videoPanelVars,
                  lastTick, settingsVars, ptzVars >>

\* A click event without a pointer press: the button is activated from the
\* keyboard.
PadKeyClick(dir) ==
  /\ gesture.phase \notin {"down", "up"}
  /\ gesture' = [ phase |-> "keyclick", pointer |-> NoPointer, dir |-> dir,
                  sent |-> onClick(pointerState, isRelativeDisabled, dir),
                  ticked |-> FALSE, enabled |-> ~isRelativeDisabled,
                  suppressed |-> pointerState.suppressClick ]
  /\ UNCHANGED << isRelativeDisabled, pointerState, joystickVars, videoPanelVars,
                  lastTick, settingsVars, ptzVars >>

\* The zero-delay timeout of stopContinuousMove fires.
PadResetTimerFire ==
  /\ gesture.phase # "up"
  /\ pointerState.resetTimer
  /\ pointerState' = [pointerState EXCEPT !.suppressClick = FALSE, !.resetTimer = FALSE]
  /\ UNCHANGED << isRelativeDisabled, gesture, joystickVars, videoPanelVars, lastTick,
                  settingsVars, ptzVars >>

\* The parent renders the pad with another isRelativeDisabled (monitoring
\* toggled, pan/tilt state gained or lost); the effect on it clears the
\* pointer state when the pad became disabled.
PadPropsChange ==
  /\ gesture.phase # "up"
  /\ isRelativeDisabled' = ~isRelativeDisabled
  /\ pointerState' = IF isRelativeDisabled'
                       THEN [clearPointerState(pointerState) EXCEPT !.suppressClick = FALSE]
                       ELSE pointerState
  /\ gesture' = IF isRelativeDisabled' THEN [gesture EXCEPT !.enabled = FALSE] ELSE gesture
  /\ UNCHANGED << joystickVars, videoPanelVars, lastTick, settingsVars, ptzVars >>

PadNext ==
  \/ \E p \in PointerIds, dir \in PadButtons, button \in MouseButtons :
       PadPointerDown(p, dir, button)
  \/ PadHoldTick
  \/ \E p \in PointerIds : PadPointerUp(p)
  \/ \E p \in PointerIds : PadPointerLeave(p)
  \/ PadClick
  \/ \E dir \in PadButtons : PadKeyClick(dir)
  \/ PadResetTimerFire
  \/ PadPropsChange

\* The pad is mounted before the pan/tilt state is loaded: onRelativeMove is
\* undefined.
PadInit ==
  /\ isRelativeDisabled = TRUE
  /\ pointerState = [ timer |-> NoTimer, pointerId |-> NoPointer, suppressClick |-> FALSE,
                      resetTimer |-> FALSE ]
  /\ gesture = [ phase |-> "idle", pointer |-> NoPointer, dir |-> << 0, 0 >>, sent |-> << >>,
                 ticked |-> FALSE, enabled |-> FALSE, suppressed |-> FALSE ]

\* ------------------------------------------------- claims: directional pad
\* C10 as stated: a pointer click on an enabled arrow button during which
\* no hold tick fired dispatches exactly one move of the full step.
C10_ClickSendsFullStep ==
  (gesture.phase = "click" /\ gesture.enabled /\ ~gesture.ticked) =>
    gesture.sent = << Delta(gesture.dir, safeStep) >>

\* C10 amended: every primary pointer-down on an enabled button dispatches
\* one move of step/10 at once and starts the tick loop; the click that ends
\* the press is suppressed, so a pointer click dispatches moves of step/10
\* only, exactly one when no tick fired. A click that is not suppressed
\* (keyboard activation) dispatches exactly one move of the full step.
C10_ClickGesture ==
  /\ (gesture.phase = "down" /\ gesture.enabled) =>
       /\ pointerState.timer = << gesture.dir >>
       /\ pointerState.suppressClick
       /\ Head(gesture.sent) = Delta(gesture.dir, smoothStep)
  /\ (gesture.phase = "click" /\ gesture.enabled) =>
       /\ gesture.suppressed
       /\ Len(gesture.sent) >= 1
       /\ \A i \in 1..Len(gesture.sent) : gesture.sent[i] = Delta(gesture.dir, smoothStep)
       /\ ~gesture.ticked => Len(gesture.sent) = 1
  /\ (gesture.phase = "keyclick" /\ gesture.enabled) =>
       gesture.sent = IF gesture.suppressed THEN << >>
                                            ELSE << Delta(gesture.dir, safeStep) >>

\* C10 witness: a pointer click without a tick has ended and dispatched one
\* move of step/10.
C10_Witness ==
  /\ gesture.phase = "click"
  /\ gesture.enabled
  /\ ~gesture.ticked
  /\ gesture.sent = << Delta(gesture.dir, smoothStep) >>

\* ----------------------------------------------------------- specifications
Init == SettingsInit /\ PtzInit /\ DragInit /\ PadInit

SpecSettings == Init /\ [][SettingsNext]_vars

\* The debounce timer fires and every request gets its response.
SpecSettingsFair ==
  /\ Init
  /\ [][SettleNext]_vars
  /\ WF_vars(PatchTimerFire)
  /\ WF_vars(FlushSucceed \/ FlushFail)

SpecPreset == Init /\ [][PresetNext]_vars

SpecSweep == Init /\ [][SweepNext]_vars

SpecNudge == Init /\ [][NudgeNext]_vars

PlanInit == SettingsInit /\ PlanPtzInit /\ DragInit /\ PadInit

SpecPlan == PlanInit /\ [][PlanNext]_vars

SpecToggle == Init /\ [][ToggleNext]_vars

SpecPoll == Init /\ [][PollNext]_vars

SpecCache == Init /\ [][CacheNext]_vars

\* React renders what it has scheduled, every wait timer fires and every
\* request of the sweep completes.
SpecTermination ==
  /\ Init
  /\ [][TerminationNext]_vars
  /\ WF_vars(Commit)
  /\ \A i \in 1..MaxSweeps : WF_vars(TimerFires(i)) /\ WF_vars(RequestCompletes(i))

SpecDrag == Init /\ [][DragNext]_vars

SpecPad == Init /\ [][PadNext]_vars

====
